---- MODULE Spec2Model ----
(***************************************************************************)
(* The large-file streaming patcher of pcx-automation as a state machine:  *)
(* a file system holding the export file, its backups and the patcher's    *)
(* temp file; LargePCXFileHandler (backup_file, append_content,            *)
(* find_insertion_point, validate_structure), FastPCXEditor                *)
(* (find_last_rule_position, insert_rules_fast) and the existing-file      *)
(* workflow of TaxReportModule.process_ticket_231589, each translated      *)
(* statement by statement.  File contents are byte sequences (integers     *)
(* 0..255); every read, write, open and rename is one step, and each may   *)
(* fail with an I/O error.                                                 *)
(***************************************************************************)
EXTENDS Integers, Sequences, FiniteSets, TLC

VARIABLES
    fs,         \* the file system: path (string) -> content (byte sequence)
    file_path,  \* the export file the handler / editor was constructed on
    clock,      \* datetime.now(), in whole seconds
    pc,         \* position inside the running method ("idle": none running)
    call,       \* the running (or last) method's arguments and locals
    handles,    \* the file handles the running method holds open
    wf,         \* position inside process_ticket_231589 ("none": not running)
    run,        \* locals of process_ticket_231589
    result,     \* how the last method ended, and what it returned
    orig,       \* content of file_path when the current method was called
    made,       \* every backup created so far: path -> its content when
                \* created, and the content of the file it was taken of
    hist,       \* the methods that have returned so far, in order, each
                \* with the section asked for and the value returned
    calls,      \* number of top-level calls started
    patches     \* number of patching calls started

vars == <<fs, file_path, clock, pc, call, handles, wf, run, result, orig, made, hist, calls, patches>>

\* ---------------------------------------------------------------- bounds

\* Bytes per initial export file under Spec (the patcher's API, to which the
\* file is opaque bytes).
MaxLen == 2
\* Lines per initial export file under ScanSpec (the scanners, to which the
\* file is lines of text) and under TicketSpec (the workflow).
MaxScanLines == 4
MaxTicketLines == 3
\* Bytes by which an offset handed to append_content may exceed the file.
MaxOver == 1
\* Clock seconds that can pass.
MaxClock == 2
\* Top-level calls per behaviour, and patching calls among them.
MaxCalls == 2
MaxPatches == 1
\* Bytes per streamed chunk: the code's chunk_size is 10 MiB; the model's
\* files are a few bytes long, so the chunk is scaled down with them to
\* make the copy loops run more than once.
ChunkBytes == 1
\* Lines per initial export file under ChunkSpec, and characters per chunk
\* of find_insertion_point's first pass there: the code's chunk_size is
\* 1 MiB, scaled down with the files so that a file takes several chunks.
MaxChunkLines == 3
ScanChunkChars == 9
\* Lines per initial export file under SchemaSpec.
MaxSchemaLines == 3

\* ----------------------------------------------------------------- bytes

NL == 10
SEP == <<NL, NL>>                                               \* b'\n\n'

\* The lines export files are made of: top-level marker lines, an indented
\* field line, an indented sub-block marker, and a line holding a character
\* (e-acute) of two bytes in UTF-8.
L_RULESET == <<65, 68, 68, 32, 82, 85, 76, 69, 83, 69, 84, 10>> \* 'ADD RULESET\n'
L_RULE == <<65, 68, 68, 32, 82, 85, 76, 69, 10>>                \* 'ADD RULE\n'
L_DESTINATION == <<65, 68, 68, 32, 68, 69, 83, 84, 73, 78, 65, 84, 73, 79, 78, 10>>
                                                        \* 'ADD DESTINATION\n'
L_FIELD == <<32, 32, 78, 61, 49, 10>>                           \* '  N=1\n'
L_COMPONENT == <<32, 32, 65, 68, 68, 32, 82, 85, 76, 69, 67, 79, 77, 80, 79, 78, 69, 78, 84, 10>>
                                                        \* '  ADD RULECOMPONENT\n'
L_ACCENT == <<195, 169, 10>>                                    \* b'\xc3\xa9\n'
L_KEYVALUE == <<32, 32, 32, 32, 78, 32, 61, 32, 49, 10>>           \* '    N = 1\n'
L_COMMENT == [i \in 1..69 |-> 42] \o <<10>>                        \* 69 times '*', '\n'
L_BINARY == <<255, 10>>                                         \* b'\xff\n'
L_CRLF == <<88, 13, 10>>                                        \* 'X\r\n'

Min(a, b) == IF a < b THEN a ELSE b

\* s[:n] and s[n:] of Python, for n >= 0.
Take(s, n) == SubSeq(s, 1, Min(n, Len(s)))
Drop(s, n) == SubSeq(s, Min(n, Len(s)) + 1, Len(s))

\* A faulty variant: a read of more bytes than are left returns nothing.
ReadAtOrNothing(content, pos, n) ==
    IF pos + n > Len(content) THEN <<>> ELSE SubSeq(content, pos + 1, pos + n)

\* What a binary handle at offset pos returns for read(n), n >= 0.
ReadAt(content, pos, n) == SubSeq(content, Min(pos, Len(content)) + 1,
                                  Min(pos + n, Len(content)))

\* What a write that fails partway (disk full) has put into the file: here
\* the first half of the data.
Partial(data) == Take(data, Len(data) \div 2)

\* str.encode('utf-8') of a sequence of code points below U+0800.
RECURSIVE Utf8(_)
Utf8(cps) ==
    IF cps = <<>> THEN <<>>
    ELSE LET c == Head(cps)
         IN  (IF c < 128 THEN <<c>>
              ELSE <<192 + (c \div 64), 128 + (c % 64)>>) \o Utf8(Tail(cps))

\* ------------------------------------------------------------------ text

\* bytes.decode('utf-8', errors='ignore'), to code points: an ASCII byte is
\* itself, a two-byte sequence is one code point, and a byte that starts no
\* valid sequence is dropped.  (The model's files hold no lead byte of a
\* three- or four-byte sequence.)
DecodeIgnore(bytes) ==
    LET wide(i) == /\ bytes[i] >= 194 /\ bytes[i] <= 223 /\ i < Len(bytes)
                   /\ bytes[i + 1] >= 128 /\ bytes[i + 1] <= 191
        starts == SelectSeq([i \in 1..Len(bytes) |-> i],
                            LAMBDA i : bytes[i] < 128 \/ wide(i))
    IN  [k \in 1..Len(starts) |->
            LET i == starts[k]
            IN  IF bytes[i] < 128 THEN bytes[i]
                ELSE (bytes[i] - 192) * 64 + (bytes[i + 1] - 128)]

\* str.startswith
StartsWith(s, prefix) ==
    Len(s) >= Len(prefix) /\ SubSeq(s, 1, Len(prefix)) = prefix

\* Code points str.strip() removes (those below U+0800).
Whitespace == {9, 10, 11, 12, 13, 28, 29, 30, 31, 32, 133, 160}

\* str.lower(), for code points below U+0100.
Lower(s) ==
    [i \in 1..Len(s) |->
        IF (s[i] >= 65 /\ s[i] <= 90) \/ (s[i] >= 192 /\ s[i] <= 222 /\ s[i] # 215)
        THEN s[i] + 32 ELSE s[i]]

RECURSIVE LStrip(_)
LStrip(s) == IF s # <<>> /\ Head(s) \in Whitespace THEN LStrip(Tail(s)) ELSE s

RECURSIVE RStrip(_)
RStrip(s) ==
    IF s # <<>> /\ s[Len(s)] \in Whitespace THEN RStrip(SubSeq(s, 1, Len(s) - 1)) ELSE s

\* str.strip()
Strip(s) == RStrip(LStrip(s))

\* Offset just past the line that starts at byte offset p: past its '\n',
\* or the end of the file.  (The model's files hold no '\r' other than in
\* a '\r\n'.)
RECURSIVE LineEnd(_, _)
LineEnd(bytes, p) ==
    IF p >= Len(bytes) THEN Len(bytes)
    ELSE IF bytes[p + 1] = NL THEN p + 1
    ELSE LineEnd(bytes, p + 1)

\* The text line a handle opened with errors='ignore' reads at offset p.
LineAt(bytes, p) == DecodeIgnore(SubSeq(bytes, p + 1, LineEnd(bytes, p)))

\* Start (0-based) of the last match re.finditer(pat, text) yields for a
\* literal pattern, -1 when there is none.
LastMatch(text, pat) ==
    LET starts == {i \in 0 .. (Len(text) - Len(pat)) :
                      SubSeq(text, i + 1, i + Len(pat)) = pat}
    IN  IF starts = {} THEN -1
        ELSE CHOOSE i \in starts : \A j \in starts : j <= i

P_ADD == <<65, 68, 68, 32>>                                     \* 'ADD '
P_ADD_RULE == <<65, 68, 68, 32, 82, 85, 76, 69>>                \* 'ADD RULE'
P_ADD_RULECOMPONENT == <<65, 68, 68, 32, 82, 85, 76, 69, 67, 79, 77, 80, 79, 78, 69, 78, 84>>
S_RULESET == <<82, 85, 76, 69, 83, 69, 84>>                     \* 'RULESET'
S_RULE == <<82, 85, 76, 69>>                                    \* 'RULE'
S_DESTINATION == <<68, 69, 83, 84, 73, 78, 65, 84, 73, 79, 78>> \* 'DESTINATION'

\* `sub in s`
Contains(s, sub) == LastMatch(s, sub) >= 0

\* What a scanner hands back: an offset, or the OSError it raised.
Returned(v) == [raised |-> FALSE, value |-> v]
Raised == [raised |-> TRUE, value |-> 0]

\* ----------------------------------------------------------------- paths

\* pathlib: the path string of parent / (stem + suffix).
PathStr(p) == p.parent \o "/" \o p.stem \o p.suffix

\* datetime.now().strftime('%Y%m%d_%H%M%S'): one string per clock second.
Timestamp(c) == "20260101_00000" \o ToString(c)

\* A faulty variant: the backup is named as the file itself.
BackupPathTxtSame(p, c) == PathStr(p)

\* backup_file: parent / f"{stem}_backup_{timestamp}.txt"
BackupPathTxt(p, c) == p.parent \o "/" \o p.stem \o "_backup_" \o Timestamp(c) \o ".txt"

\* create_backup: self.backup_dir / f"{stem}_backup_{timestamp}{suffix}",
\* with backup_dir = Path("data/backups").
BackupPathInDir(p, c) ==
    "data/backups" \o "/" \o p.stem \o "_backup_" \o Timestamp(c) \o p.suffix

\* A faulty variant: the patched copy is written onto the export file itself.
TempPathInPlace(p) == PathStr(p)

\* append_content / FastPCXEditor.__init__: parent / f"{stem}_temp.txt"
TempPath(p) == p.parent \o "/" \o p.stem \o "_temp.txt"

Exists(p) == p \in DOMAIN fs

\* The file system with path p holding content c (created if absent).
Put(f, p, c) == (p :> c) @@ f

\* The file system without path p.
Remove(f, p) == [q \in DOMAIN f \ {p} |-> f[q]]

\* os.replace / POSIX rename: dst atomically takes src's content, src is gone.
Rename(f, src, dst) == Remove(Put(f, dst, f[src]), src)

\* ---------------------------------------------------------------- inputs

FilePaths == {[parent |-> "srv", stem |-> "export", suffix |-> ".txt"]}

\* Export files under the two suffixes the tool is given: the server's
\* .txt export and a .pcx file.
Suffixes == {".txt", ".pcx"}

SuffixPaths == {[parent |-> "srv", stem |-> "export", suffix |-> x] : x \in Suffixes}

\* Bytes of an opaque export file: 'A', and 0xFF, which no UTF-8 text
\* contains.
FileBytes == {65, 255}

\* The export files of Spec: every byte sequence of at most MaxLen bytes,
\* the empty file included.
Files == UNION {[1..n -> FileBytes] : n \in 0..MaxLen}

\* ''.join(ls)
RECURSIVE Join(_)
Join(ls) == IF ls = <<>> THEN <<>> ELSE Head(ls) \o Join(Tail(ls))

\* Every file of at most n lines drawn from kinds, the empty file included.
FilesOfLines(kinds, n) == {Join(ls) : ls \in UNION {[1..k -> kinds] : k \in 0..n}}

\* The export files of ScanSpec.
ScanFiles ==
    FilesOfLines({L_RULESET, L_RULE, L_DESTINATION, L_FIELD, L_COMPONENT, L_ACCENT},
                 MaxScanLines)

\* The files the validators are applied to: with the comment line a file
\* of four lines reaches PCXValidator.MIN_FILE_SIZE, and the 0xFF line is
\* no UTF-8.
ValidateFiles ==
    FilesOfLines({L_RULESET, L_DESTINATION, L_KEYVALUE, L_FIELD, L_COMMENT, L_BINARY},
                 MaxScanLines)

\* A path where there is no file.
MissingPath == "srv/missing.txt"

\* The export files of ChunkSpec: marker lines between lines of a two-byte
\* character, of a byte that is no UTF-8, and with a CRLF ending.
ChunkFiles ==
    FilesOfLines({L_RULE, L_FIELD, L_ACCENT, L_BINARY, L_CRLF}, MaxChunkLines)

\* The export files of SchemaSpec: marker lines, field lines and blank
\* lines.
SchemaFiles ==
    FilesOfLines({L_RULESET, L_RULE, L_DESTINATION, L_FIELD, <<NL>>}, MaxSchemaLines)

\* The export files of TicketSpec.
TicketFiles ==
    FilesOfLines({L_RULESET, L_RULE, L_DESTINATION, L_FIELD}, MaxTicketLines)

\* Block texts (code points): "B", and e-acute (two bytes in UTF-8) with a
\* newline.
Blocks == {<<66>>, <<233, NL>>}

NoAt == -1      \* at_position=None

NoCall == [fn |-> "none", at |-> NoAt, new |-> <<>>, pos |-> 0,
           chunk |-> <<>>, bak |-> "", after_section |-> <<>>, path |-> "",
           chunk_size |-> 1024 * 1024, attempt |-> 1]

\* start is the content of the export file when the workflow was started,
\* handler whether the import of the handler succeeded, answers what the
\* operator typed at each prompt shown.
NoRun == [backup_path |-> "", position |-> 0, is_valid |-> TRUE, start |-> <<>>,
          handler |-> TRUE, answers |-> <<>>]

NoResult == [fn |-> "none", status |-> "none", where |-> "idle", why |-> "", value |-> 0]

\* The content of a path that does not exist.
Absent == <<-1>>

\* The state after construction of the handler / editor on an export file
\* drawn from files, at a path drawn from paths, beside the other files of
\* one of the directories in others.
InitIn(paths, files, others) ==
    /\ file_path \in paths
    /\ \E F \in files, d \in others : fs = (PathStr(file_path) :> F) @@ d
    /\ clock = 1
    /\ pc = "idle"
    /\ call = NoCall
    /\ handles = {}
    /\ wf = "none"
    /\ run = NoRun
    /\ result = NoResult
    /\ orig = fs[PathStr(file_path)]
    /\ made = <<>>
    /\ hist = <<>>
    /\ calls = 0
    /\ patches = 0

\* The export file alone in its directory.
InitAt(paths, files) == InitIn(paths, files, {<<>>})

InitOn(files) == InitAt(FilePaths, files)

Init == InitOn(Files)

Target == PathStr(file_path)

Content(p) == IF Exists(p) THEN fs[p] ELSE Absent

\* -------------------------------------------------------- ends of a call

\* A faulty variant: the workflow catches the error and carries on.
RaiseForCaught(why) ==
    /\ pc' = "idle"
    /\ handles' = {}
    /\ wf' = wf
    /\ result' = [fn |-> call.fn, status |-> "raised", where |-> pc,
                  why |-> why, value |-> 0]

\* A faulty variant: the handles are opened without with-blocks, and an
\* exception leaves them open.
RaiseForLeaving(why) ==
    /\ pc' = "idle"
    /\ handles' = handles
    /\ wf' = "none"
    /\ result' = [fn |-> call.fn, status |-> "raised", where |-> pc,
                  why |-> why, value |-> 0]

\* An exception leaves the method: the with-blocks close the handles, and
\* nothing up the stack catches an OSError, so the workflow ends with it.
\* why is "io" for an error of the environment (a failed read, write, open
\* or rename), "code" for an error the code raises on its own.
RaiseFor(why) ==
    /\ pc' = "idle"
    /\ handles' = {}
    /\ wf' = "none"
    /\ result' = [fn |-> call.fn, status |-> "raised", where |-> pc,
                  why |-> why, value |-> 0]

Raise == RaiseFor("io")

\* The method returns v to its caller.
Return(v) ==
    /\ pc' = "idle"
    /\ handles' = {}
    /\ result' = [fn |-> call.fn, status |-> "ok", where |-> pc, why |-> "", value |-> v]
    /\ hist' = Append(hist, [fn |-> call.fn, after_section |-> call.after_section,
                             value |-> v])

\* A top-level call by the operator's session or a test harness.  Nothing
\* in the tool catches an OSError (pcx_cli.py and TaxReportModule.run catch
\* ImportError only), so a raised error ends the process.
CanCall ==
    /\ pc = "idle"
    /\ wf = "none"
    /\ result.status # "raised"
    /\ calls < MaxCalls

\* Method c.fn is entered with the arguments in c, at its step first.
BeginWith(c, first) ==
    /\ call' = c
    /\ orig' = Content(Target)
    /\ result' = [NoResult EXCEPT !.fn = c.fn, !.status = "running"]
    /\ pc' = first

Begin(fn, at, new, bak, first) ==
    BeginWith([NoCall EXCEPT !.fn = fn, !.at = at, !.new = new, !.bak = bak], first)

\* The second passes.  The clock is read only where a backup is named, and
\* a method reads it at most once, so letting time pass between methods
\* (and between the workflow's steps) covers every reading it can get.
Tick ==
    /\ pc = "idle"
    /\ clock < MaxClock
    /\ clock' = clock + 1
    /\ UNCHANGED <<fs, file_path, pc, call, handles, wf, run, result, orig, made, hist, calls, patches>>

\* The process being killed between two steps changes no file: the state
\* it leaves is the state reached so far, with nothing left to run.  Every
\* reachable state is therefore also a state after a kill, and what holds
\* in every reachable state holds after an interruption at any step.

\* A faulty variant: the error handler still moves the file written so far onto
\* the export file.
WriteFailsThenReplace(path, data) ==
    /\ fs' = Rename(Put(fs, path, fs[path] \o Partial(data)), path, Target)
    /\ Raise

\* A write that fails partway: part of the data is in the file, and the
\* error leaves the method.
WriteFails(path, data) ==
    /\ fs' = Put(fs, path, fs[path] \o Partial(data))
    /\ Raise

\* handle.write(data) on the handle open on path, then on to step next.
Write(path, data, next) ==
    \/ /\ fs' = Put(fs, path, fs[path] \o data)
       /\ pc' = next
       /\ UNCHANGED <<handles, wf, result>>
    \/ WriteFails(path, data)

\* ------------------------------------------- LargePCXFileHandler.backup_file

\* lines 58-62: the backup path is named from the clock at the call.
CallBackupFile ==
    /\ CanCall
    /\ Begin("backup_file", NoAt, <<>>, BackupPathTxt(file_path, clock), "bk_open_src")
    /\ calls' = calls + 1
    /\ UNCHANGED patches
    /\ UNCHANGED <<fs, file_path, clock, handles, wf, run, made, hist>>

\* line 71: open(self.file_path, 'rb')
BkOpenSrc ==
    /\ pc = "bk_open_src"
    /\ \/ /\ Exists(Target)
          /\ handles' = handles \cup {"src"}
          /\ pc' = "bk_open_dst"
          /\ UNCHANGED <<wf, result>>
       \/ Raise
    /\ UNCHANGED <<fs, file_path, clock, call, run, orig, made, hist, calls, patches>>

\* line 72: open(backup_path, 'wb') creates the file or truncates it.
BkOpenDst ==
    /\ pc = "bk_open_dst"
    /\ \/ /\ fs' = Put(fs, call.bak, <<>>)
          /\ handles' = handles \cup {"dst"}
          /\ pc' = "bk_read"
          /\ UNCHANGED <<wf, result>>
       \/ Raise /\ UNCHANGED fs
    /\ UNCHANGED <<file_path, clock, call, run, orig, made, hist, calls, patches>>

\* A faulty variant: the source is read as text with errors='ignore', as the
\* scanners read it, and re-encoded.
BkReadAsText ==
    /\ pc = "bk_read"
    /\ \/ /\ LET raw == ReadAt(fs[Target], call.pos, ChunkBytes)
             IN  /\ call' = [call EXCEPT !.chunk = Utf8(DecodeIgnore(raw)),
                                         !.pos = @ + Len(raw)]
                 /\ pc' = IF raw = <<>> THEN "bk_done" ELSE "bk_write"
          /\ UNCHANGED <<handles, wf, result>>
       \/ Raise /\ UNCHANGED call
    /\ UNCHANGED <<fs, file_path, clock, run, orig, made, hist, calls, patches>>

\* lines 74-76: chunk = src.read(chunk_size); if not chunk: break
BkRead ==
    /\ pc = "bk_read"
    /\ \/ /\ LET chunk == ReadAt(fs[Target], call.pos, ChunkBytes)
             IN  /\ call' = [call EXCEPT !.chunk = chunk, !.pos = @ + Len(chunk)]
                 /\ pc' = IF chunk = <<>> THEN "bk_done" ELSE "bk_write"
          /\ UNCHANGED <<handles, wf, result>>
       \/ Raise /\ UNCHANGED call
    /\ UNCHANGED <<fs, file_path, clock, run, orig, made, hist, calls, patches>>

\* line 77: dst.write(chunk); a failing write may leave part of the chunk.
BkWrite ==
    /\ pc = "bk_write"
    /\ Write(call.bak, call.chunk, "bk_read")
    /\ UNCHANGED <<file_path, clock, call, run, orig, made, hist, calls, patches>>

\* lines 79-80: both handles closed, return backup_path.
BkReturn ==
    /\ pc = "bk_done"
    /\ Return(call.bak)
    /\ made' = Put(made, call.bak, [content |-> fs[call.bak], source |-> orig])
    /\ UNCHANGED <<fs, file_path, clock, call, wf, run, orig, calls, patches>>

backup_file == BkOpenSrc \/ BkOpenDst \/ BkRead \/ BkWrite \/ BkReturn

\* --------------------------------------- LargePCXFileHandler.append_content

\* The offsets a caller may pass: None, or any offset up to MaxOver bytes
\* past the end of the file.
Offsets == {NoAt} \cup (0 .. Len(IF Exists(Target) THEN fs[Target] ELSE <<>>) + MaxOver)

\* line 88: `if at_position is None` -- offset 0 is a position.
Positional(at) == at # NoAt

CallAppendContent ==
    /\ CanCall
    /\ patches < MaxPatches
    /\ patches' = patches + 1
    /\ \E new \in Blocks, at \in Offsets :
          Begin("append_content", at, new, "",
                IF Positional(at) THEN "ap_open_src" ELSE "aa_open")
    /\ calls' = calls + 1
    /\ UNCHANGED <<fs, file_path, clock, handles, wf, run, made, hist>>

\* line 102: open(self.file_path, 'rb')
ApOpenSrc ==
    /\ pc = "ap_open_src"
    /\ \/ /\ Exists(Target)
          /\ handles' = handles \cup {"src"}
          /\ pc' = "ap_open_dst"
          /\ UNCHANGED <<wf, result>>
       \/ Raise
    /\ UNCHANGED <<fs, file_path, clock, call, run, orig, made, hist, calls, patches>>

\* A faulty variant: the temp file is opened with 'ab', which keeps what a
\* file of that name holds.
ApOpenDstAppending ==
    /\ pc = "ap_open_dst"
    /\ \/ /\ fs' = (IF Exists(TempPath(file_path)) THEN fs
                    ELSE Put(fs, TempPath(file_path), <<>>))
          /\ handles' = handles \cup {"dst"}
          /\ pc' = "ap_read_head"
          /\ UNCHANGED <<wf, result>>
       \/ Raise /\ UNCHANGED fs
    /\ UNCHANGED <<file_path, clock, call, run, orig, made, hist, calls, patches>>

\* line 103: open(temp_file, 'wb') creates the temp file or truncates it.
ApOpenDst ==
    /\ pc = "ap_open_dst"
    /\ \/ /\ fs' = Put(fs, TempPath(file_path), <<>>)
          /\ handles' = handles \cup {"dst"}
          /\ pc' = "ap_read_head"
          /\ UNCHANGED <<wf, result>>
       \/ Raise /\ UNCHANGED fs
    /\ UNCHANGED <<file_path, clock, call, run, orig, made, hist, calls, patches>>

\* line 105, src.read(at_position): one read of at_position bytes.
ApReadHead ==
    /\ pc = "ap_read_head"
    /\ \/ /\ LET data == ReadAt(fs[Target], call.pos, call.at)
             IN  call' = [call EXCEPT !.chunk = data, !.pos = @ + Len(data)]
          /\ pc' = "ap_write_head"
          /\ UNCHANGED <<handles, wf, result>>
       \/ Raise /\ UNCHANGED call
    /\ UNCHANGED <<fs, file_path, clock, run, orig, made, hist, calls, patches>>

\* line 105, dst.write(...)
ApWriteHead ==
    /\ pc = "ap_write_head"
    /\ Write(TempPath(file_path), call.chunk, "ap_sep1")
    /\ UNCHANGED <<file_path, clock, call, run, orig, made, hist, calls, patches>>

\* line 107: dst.write(b'\n\n')
ApSep1 ==
    /\ pc = "ap_sep1"
    /\ Write(TempPath(file_path), SEP, "ap_new")
    /\ UNCHANGED <<file_path, clock, call, run, orig, made, hist, calls, patches>>

\* line 108: dst.write(new_content.encode('utf-8'))
ApNew ==
    /\ pc = "ap_new"
    /\ Write(TempPath(file_path), Utf8(call.new), "ap_sep2")
    /\ UNCHANGED <<file_path, clock, call, run, orig, made, hist, calls, patches>>

\* line 109: dst.write(b'\n\n')
ApSep2 ==
    /\ pc = "ap_sep2"
    /\ Write(TempPath(file_path), SEP, "ap_read")
    /\ UNCHANGED <<file_path, clock, call, run, orig, made, hist, calls, patches>>

\* lines 113-115: chunk = src.read(chunk_size); if not chunk: break
ApRead ==
    /\ pc = "ap_read"
    /\ \/ /\ LET chunk == ReadAt(fs[Target], call.pos, ChunkBytes)
             IN  /\ call' = [call EXCEPT !.chunk = chunk, !.pos = @ + Len(chunk)]
                 /\ pc' = IF chunk = <<>> THEN "ap_close" ELSE "ap_write"
          /\ UNCHANGED <<handles, wf, result>>
       \/ Raise /\ UNCHANGED call
    /\ UNCHANGED <<fs, file_path, clock, run, orig, made, hist, calls, patches>>

\* line 116: dst.write(chunk)
ApWrite ==
    /\ pc = "ap_write"
    /\ Write(TempPath(file_path), call.chunk, "ap_read")
    /\ UNCHANGED <<file_path, clock, call, run, orig, made, hist, calls, patches>>

\* lines 102-103, leaving the with-blocks: both handles are closed; the
\* close flushes, and may fail as a write does.
ApClose ==
    /\ pc = "ap_close"
    /\ \/ /\ handles' = {}
          /\ pc' = "ap_replace"
          /\ UNCHANGED <<wf, result>>
       \/ Raise
    /\ UNCHANGED <<fs, file_path, clock, call, run, orig, made, hist, calls, patches>>

\* line 119: temp_file.replace(self.file_path), one atomic os.replace.
ApReplace ==
    /\ pc = "ap_replace"
    /\ \/ /\ fs' = Rename(fs, TempPath(file_path), Target)
          /\ pc' = "ap_done"
          /\ UNCHANGED <<handles, wf, result>>
       \/ Raise /\ UNCHANGED fs
    /\ UNCHANGED <<file_path, clock, call, run, orig, made, hist, calls, patches>>

\* line 91: open(self.file_path, 'a', encoding='utf-8') creates the file if
\* it is absent and writes at its end.
AaOpen ==
    /\ pc = "aa_open"
    /\ \/ /\ fs' = (IF Exists(Target) THEN fs ELSE Put(fs, Target, <<>>))
          /\ handles' = handles \cup {"f"}
          /\ pc' = "aa_sep"
          /\ UNCHANGED <<wf, result>>
       \/ Raise /\ UNCHANGED fs
    /\ UNCHANGED <<file_path, clock, call, run, orig, made, hist, calls, patches>>

\* line 92: f.write('\n\n')
AaSep ==
    /\ pc = "aa_sep"
    /\ Write(Target, SEP, "aa_new")
    /\ UNCHANGED <<file_path, clock, call, run, orig, made, hist, calls, patches>>

\* line 93: f.write(new_content), encoded as UTF-8 by the text handle.
AaNew ==
    /\ pc = "aa_new"
    /\ Write(Target, Utf8(call.new), "ap_done")
    /\ UNCHANGED <<file_path, clock, call, run, orig, made, hist, calls, patches>>

\* line 121: print_success(...), and the method returns None.
ApReturn ==
    /\ pc = "ap_done"
    /\ Return(0)
    /\ UNCHANGED <<fs, file_path, clock, call, wf, run, orig, made, calls, patches>>

\* lines 94-121, the branch taken with a position
append_at_position ==
    \/ ApOpenSrc \/ ApOpenDst \/ ApReadHead \/ ApWriteHead \/ ApSep1 \/ ApNew
    \/ ApSep2 \/ ApRead \/ ApWrite \/ ApClose \/ ApReplace \/ ApReturn

\* lines 88-93, the branch taken without one
append_at_end == AaOpen \/ AaSep \/ AaNew

append_content == append_at_position \/ append_at_end

\* --------------------------------- LargePCXFileHandler.find_insertion_point

\* A handle opened with 'r', encoding='utf-8', errors='ignore': the
\* characters it reads (a CRLF is read as '\n', a byte that starts no valid
\* sequence is dropped), and for each the byte offset just past it, which
\* is what f.tell() returns after a read that ends with that character.
\* (The model's files hold no CR other than in a CRLF.)
ReadText(bytes) ==
    LET wide(i) == /\ i > 1 /\ bytes[i - 1] >= 194 /\ bytes[i - 1] <= 223
                   /\ bytes[i] >= 128 /\ bytes[i] <= 191
        crlf(i) == bytes[i] = 13 /\ i < Len(bytes) /\ bytes[i + 1] = NL
        ends == SelectSeq([i \in 1..Len(bytes) |-> i],
                          LAMBDA i : (bytes[i] < 128 /\ ~crlf(i)) \/ wide(i))
    IN  [text |-> [k \in 1..Len(ends) |->
                      IF bytes[ends[k]] < 128 THEN bytes[ends[k]]
                      ELSE (bytes[ends[k] - 1] - 192) * 64 + (bytes[ends[k]] - 128)],
         ends |-> ends]

\* lines 26-41, the first pass with chunks of chunk_size characters, from
\* the k-th character on: chunk = f.read(chunk_size), and for the last match
\* in it last_position = f.tell() - len(chunk) + match.start().  After the
\* chunk that ends the text f.tell() is the length of the file.
RECURSIVE FipFirstPassIn(_, _, _, _, _)
FipFirstPassIn(bytes, pattern, chunk_size, k, last_position) ==
    LET read == ReadText(bytes)
        chunk == SubSeq(read.text, k + 1, Min(k + chunk_size, Len(read.text)))
        tell == IF k + Len(chunk) = Len(read.text) THEN Len(bytes)
                ELSE read.ends[k + Len(chunk)]
        start == LastMatch(chunk, pattern)
    IN  IF chunk = <<>> THEN last_position
        ELSE FipFirstPassIn(bytes, pattern, chunk_size, k + Len(chunk),
                            IF start < 0 THEN last_position
                            ELSE tell - Len(chunk) + start)

\* lines 26-41 with the code's chunk_size of 1 MiB characters: a file
\* shorter than that is read as one chunk.
FipFirstPass(bytes, pattern) ==
    FipFirstPassIn(bytes, pattern, 1024 * 1024, 0, 0)

\* lines 47-52, the second pass from byte offset p on: readline until the
\* line is empty (end of file) or its stripped text starts with 'ADD ',
\* then return f.tell(), the offset just past the line read.
RECURSIVE FipSecondPass(_, _)
FipSecondPass(bytes, p) ==
    IF p >= Len(bytes) THEN Len(bytes)
    ELSE IF StartsWith(Strip(LineAt(bytes, p)), P_ADD) THEN LineEnd(bytes, p)
    ELSE FipSecondPass(bytes, LineEnd(bytes, p))

\* lines 17-54
FindInsertionPoint(bytes, after_section) ==
    FipSecondPass(bytes, FipFirstPass(bytes, P_ADD \o after_section))

\* The section types a caller may ask for.
Sections == {S_RULESET, S_RULE, S_DESTINATION}

\* ----------------------------------- LargePCXFileHandler.validate_structure

\* The text lines `for line in f` yields from byte offset p on.
RECURSIVE TextLines(_, _)
TextLines(bytes, p) ==
    IF p >= Len(bytes) THEN <<>>
    ELSE <<LineAt(bytes, p)>> \o TextLines(bytes, LineEnd(bytes, p))

\* lines 138-142
RequiredSections == <<P_ADD \o S_DESTINATION, P_ADD_RULE, P_ADD \o S_RULESET>>

\* lines 123-160: the issues found, in order, and whether there are none.
ValidateStructure(bytes) ==
    LET lines == TextLines(bytes, 0)
        checked == 1 .. Min(Len(lines), 10000)
        found(section) == \E i \in checked : Contains(lines[i], section)
        size_issues == IF Len(bytes) > 100 * 1024 * 1024
                       THEN <<"File very large">> ELSE <<>>
        missing == SelectSeq(RequiredSections, LAMBDA section : ~found(section))
        issues == size_issues \o [i \in 1 .. Len(missing) |-> "Missing section"]
    IN  [is_valid |-> Len(issues) = 0, issues |-> issues, missing |-> missing]

\* ------------------------------------------- PCXValidator.validate_file

MIN_FILE_SIZE == 100
MAX_LINE_LENGTH == 255

\* line 32-33, open(file_path, 'r') and f.read(): the text under the
\* locale's encoding (UTF-8) with strict errors, or the UnicodeDecodeError.
DecodeStrict(bytes) ==
    LET lead(i) == bytes[i] >= 194 /\ bytes[i] <= 223
        trail(i) == bytes[i] >= 128 /\ bytes[i] <= 191
        decodable(i) == \/ bytes[i] < 128
                        \/ lead(i) /\ i < Len(bytes) /\ trail(i + 1)
                        \/ trail(i) /\ i > 1 /\ lead(i - 1)
    IN  IF \A i \in 1..Len(bytes) : decodable(i)
        THEN Returned(DecodeIgnore(bytes)) ELSE Raised

\* line 34, content.split('\n'): the pieces between the newlines, the one
\* after the last newline included.
RECURSIVE SplitLines(_)
SplitLines(content) ==
    IF \A i \in 1..Len(content) : content[i] # NL THEN <<content>>
    ELSE LET i == CHOOSE k \in 1..Len(content) :
                      content[k] = NL /\ \A j \in 1..(k - 1) : content[j] # NL
         IN  <<SubSeq(content, 1, i - 1)>>
             \o SplitLines(SubSeq(content, i + 1, Len(content)))

\* line 14
REQUIRED_SECTIONS == <<P_ADD \o S_DESTINATION, P_ADD_RULE>>

\* line 66, re.match(r'^\s{4}\S+\s+=\s+.*$', line): four blanks, a key, blanks,
\* the '=' at position e, a blank.
MatchesKeyValue(line) ==
    \E e \in 7..(Len(line) - 1) :
        /\ \A i \in 1..4 : line[i] \in Whitespace
        /\ line[e] = 61
        /\ line[e + 1] \in Whitespace
        /\ \E k \in 5..(e - 2) :
              /\ \A i \in 5..k : line[i] \notin Whitespace
              /\ \A i \in (k + 1)..(e - 1) : line[i] \in Whitespace

\* lines 45-67: the errors of the lines from the i-th on.
RECURSIVE LineErrors(_, _, _)
LineErrors(lines, i, in_block) ==
    IF i > Len(lines) THEN <<>>
    ELSE LET line == lines[i]
             too_long == IF Len(line) > MAX_LINE_LENGTH
                         THEN <<"exceeds max length">> ELSE <<>>
             indentation ==
                 IF /\ in_block /\ Strip(line) # <<>>
                    /\ ~StartsWith(line, <<32, 32, 32, 32>>)
                    /\ ~StartsWith(line, <<42>>)
                 THEN <<"Invalid indentation in block">> ELSE <<>>
             key_value ==
                 IF in_block /\ (\E k \in 1..Len(line) : line[k] = 61)
                    /\ ~MatchesKeyValue(line)
                 THEN <<"Invalid key-value format">> ELSE <<>>
         IN  IF StartsWith(line, P_ADD)
             THEN too_long \o LineErrors(lines, i + 1, TRUE)
             ELSE too_long \o indentation \o key_value
                  \o LineErrors(lines, i + 1, in_block)

\* A faulty variant: a file that is too small is reported, but counts as valid.
ValidateFileSizeAsWarning(bytes) ==
    LET decoded == DecodeStrict(bytes)
        content == IF decoded.raised THEN <<>> ELSE decoded.value
        size_errors == IF Len(bytes) < MIN_FILE_SIZE THEN <<"File too small">> ELSE <<>>
        missing == SelectSeq(REQUIRED_SECTIONS, LAMBDA required : ~Contains(content, required))
        others == [i \in 1..Len(missing) |-> "Missing required section"]
                  \o LineErrors(SplitLines(content), 1, FALSE)
    IN  [raised |-> decoded.raised,
         is_valid |-> Len(others) = 0,
         issues |-> size_errors \o others]

\* lines 27-69, for a file that exists: the UnicodeDecodeError of the read,
\* or the errors found, in order, and whether there are none.
ValidateFile(bytes) ==
    LET decoded == DecodeStrict(bytes)
        content == IF decoded.raised THEN <<>> ELSE decoded.value
        size_errors == IF Len(bytes) < MIN_FILE_SIZE THEN <<"File too small">> ELSE <<>>
        missing == SelectSeq(REQUIRED_SECTIONS, LAMBDA required : ~Contains(content, required))
        errors == size_errors
                  \o [i \in 1..Len(missing) |-> "Missing required section"]
                  \o LineErrors(SplitLines(content), 1, FALSE)
    IN  [raised |-> decoded.raised,
         is_valid |-> Len(errors) = 0,
         issues |-> errors]

\* ------------------------------------ FastPCXEditor.find_last_rule_position

\* line 47, f.tell() inside `for line in f`: iterating a text handle
\* disables tell(), which raises OSError("telling position disabled by
\* next() call") whatever the offset.
TellInLoop(offset) == Raised

\* lines 37-47, the loop from the line at byte offset p on.
RECURSIVE FlrpLoop(_, _, _, _, _)
FlrpLoop(bytes, p, position, in_rule_block, last_rule_pos) ==
    LET line == LineAt(bytes, p)
        is_rule == StartsWith(line, P_ADD_RULE)
        told == TellInLoop(LineEnd(bytes, p))
    IN  IF line = <<>> THEN Returned(last_rule_pos)                \* line 49
        ELSE IF /\ ~is_rule /\ in_rule_block /\ StartsWith(line, P_ADD)
                /\ ~StartsWith(line, P_ADD_RULECOMPONENT)
             THEN Returned(position)                               \* line 46
        ELSE IF told.raised THEN Raised                            \* line 47
        ELSE FlrpLoop(bytes, LineEnd(bytes, p), told.value,
                      in_rule_block \/ is_rule,
                      IF is_rule THEN position ELSE last_rule_pos)

\* lines 30-49
FindLastRulePosition(bytes) == FlrpLoop(bytes, 0, 0, FALSE, 0)

\* ---------------------------------------------------------- PCXSchemaManager

\* pcx_schema.py lines 23-34, SECTION_ORDER: section name and its order.
SECTION_ORDER ==
    {   <<<<80, 82, 73, 78, 84, 83, 69, 82, 86, 69, 82>>, 1>>,
            \* 'PRINTSERVER'
        <<<<82, 69, 84, 69, 78, 84, 73, 79, 78, 80, 79, 76, 73, 67, 89>>, 2>>,
            \* 'RETENTIONPOLICY'
        <<<<73, 78, 68, 69, 88, 84, 69, 77, 80, 76, 65, 84, 69>>, 3>>,
            \* 'INDEXTEMPLATE'
        <<<<73, 78, 68, 69, 88, 70, 73, 69, 76, 68>>, 4>>,
            \* 'INDEXFIELD'
        <<<<84, 69, 77, 80, 76, 65, 84, 69, 76, 79, 67, 65, 84, 73, 79, 78>>, 5>>,
            \* 'TEMPLATELOCATION'
        <<<<68, 69, 83, 84, 73, 78, 65, 84, 73, 79, 78>>, 6>>,
            \* 'DESTINATION'
        <<<<82, 85, 76, 69, 83, 69, 84>>, 7>>,
            \* 'RULESET'
        <<<<82, 85, 76, 69>>, 8>>,
            \* 'RULE'
        <<<<82, 69, 80, 79, 82, 84, 68, 69, 70, 78>>, 9>>,
            \* 'REPORTDEFN'
        <<<<86, 65, 82, 73, 65, 66, 76, 69>>, 10>>}
            \* 'VARIABLE'

\* self.SECTION_ORDER.get(name, 99)
OrderOf(name) ==
    IF \E e \in SECTION_ORDER : e[1] = name
    THEN (CHOOSE e \in SECTION_ORDER : e[1] = name)[2]
    ELSE 99

\* Code points that \w matches in a str pattern (those below U+0100).
WordChars ==
    (48..57) \cup (65..90) \cup {95} \cup (97..122) \cup {170, 181, 186}
    \cup (192..214) \cup (216..246) \cup (248..255)

\* lines 54-59: line.startswith('ADD ') and re.match(r'^ADD\s+(\w+)', line);
\* the section type matched, <<>> when the line is no marker line.
SectionTypeOf(line) ==
    LET rest == LStrip(Drop(line, 3))
        n == CHOOSE k \in 0..Len(rest) :
                 /\ \A i \in 1..k : rest[i] \in WordChars
                 /\ k = Len(rest) \/ rest[k + 1] \notin WordChars
    IN  IF StartsWith(line, P_ADD) THEN Take(rest, n) ELSE <<>>

\* lines 62-75 and 85-96: self.sections.setdefault(name, PCXSection(...))
\* and then .content.extend(content).  The dict is a sequence in the order
\* of insertion.
SaveSection(sections, name, start_line, end_line, content) ==
    IF \E k \in DOMAIN sections : sections[k].name = name
    THEN [k \in DOMAIN sections |->
              IF sections[k].name = name
              THEN [sections[k] EXCEPT !.content = @ \o content]
              ELSE sections[k]]
    ELSE Append(sections, [name |-> name, order |-> OrderOf(name), content |-> content,
                           start_line |-> start_line, end_line |-> end_line])

\* lines 53-96, the loop from line i on (line i is raw_lines[i + 1]), and
\* what follows the loop; current_section is <<>> for None.  The lines
\* collected are reset only when the section type changes (line 78).
RECURSIVE ParseLoop(_, _, _, _, _, _)
ParseLoop(raw_lines, i, current_section, current_content, section_start, sections) ==
    IF i >= Len(raw_lines)
    THEN IF current_section # <<>>
         THEN SaveSection(sections, current_section, section_start,
                          Len(raw_lines) - 1, current_content)
         ELSE sections
    ELSE LET line == raw_lines[i + 1]
             section_type == SectionTypeOf(line)
             saved == IF section_type # <<>> /\ current_section # <<>>
                      THEN SaveSection(sections, current_section, section_start,
                                       i - 1, current_content)
                      ELSE sections
             new == section_type # <<>> /\ section_type # current_section
             section == IF new THEN section_type ELSE current_section
             content == IF new THEN <<>> ELSE current_content
         IN  ParseLoop(raw_lines, i + 1, section,
                       IF section # <<>> THEN Append(content, line) ELSE content,
                       IF new THEN i ELSE section_start, saved)

\* lines 43-96: the manager after parse_file, its raw_lines and sections.
ParseFile(bytes) ==
    [raw_lines |-> TextLines(bytes, 0),
     sections |-> ParseLoop(TextLines(bytes, 0), 0, <<>>, <<>>, 0, <<>>)]

\* lines 36-41: the manager the constructor leaves; parse_file is called
\* when the file exists.
NewManager == [raw_lines |-> <<>>, sections |-> <<>>]

\* lines 177-180, sorted(self.sections.keys(), key=...): a stable sort by
\* order.
SortedSections(sections) ==
    LET rank(k) == Cardinality({j \in DOMAIN sections :
                        \/ sections[j].order < sections[k].order
                        \/ sections[j].order = sections[k].order /\ j < k})
    IN  [r \in DOMAIN sections |->
            sections[CHOOSE k \in DOMAIN sections : rank(k) = r - 1]]

\* lines 182-185: what save writes, as text: each section's lines, a line
\* without '\n' at its end given one, and '\n' after each section.
SavedText(sections) ==
    LET ended(line) == IF line # <<>> /\ line[Len(line)] = NL THEN line
                       ELSE Append(line, NL)
        text(section) == Join([k \in DOMAIN section.content |-> ended(section.content[k])])
                         \o <<NL>>
    IN  Join([r \in DOMAIN sections |-> text(SortedSections(sections)[r])])

\* The manager the session holds: the one the constructor returned last.
Managers == {i \in DOMAIN hist : hist[i].fn = "PCXSchemaManager"}

Manager == hist[CHOOSE i \in Managers : \A j \in Managers : j <= i].value

\* manager = PCXSchemaManager(file_path)
CallNewManager ==
    /\ CanCall
    /\ Begin("PCXSchemaManager", NoAt, <<>>, "", "pm_exists")
    /\ calls' = calls + 1
    /\ UNCHANGED <<fs, file_path, clock, handles, wf, run, made, hist, patches>>

\* lines 40-41 and 47-96: file_path.exists(), and parse_file if it does;
\* only reads.
PmParse ==
    /\ pc = "pm_exists"
    /\ \/ Exists(Target) /\ Return(ParseFile(fs[Target]))
       \/ ~Exists(Target) /\ Return(NewManager)
       \/ Raise /\ UNCHANGED hist
    /\ UNCHANGED <<fs, file_path, clock, call, wf, run, orig, made, calls, patches>>

\* manager.save(), with no output_path: the file parsed is written over.
CallSave ==
    /\ CanCall
    /\ Managers # {}
    /\ Begin("save", NoAt, <<>>, "", "sv_open")
    /\ calls' = calls + 1
    /\ UNCHANGED <<fs, file_path, clock, handles, wf, run, made, hist, patches>>

\* line 175: open(save_path, 'w', encoding='utf-8') creates the file or
\* truncates it.
SvOpen ==
    /\ pc = "sv_open"
    /\ \/ /\ fs' = Put(fs, Target, <<>>)
          /\ handles' = handles \cup {"f"}
          /\ pc' = "sv_write"
          /\ UNCHANGED <<wf, result>>
       \/ Raise /\ UNCHANGED fs
    /\ UNCHANGED <<file_path, clock, call, run, orig, made, hist, calls, patches>>

\* lines 177-185: the sections are written, encoded as UTF-8 by the text
\* handle.
SvWrite ==
    /\ pc = "sv_write"
    /\ Write(Target, Utf8(SavedText(Manager.sections)), "sv_done")
    /\ UNCHANGED <<file_path, clock, call, run, orig, made, hist, calls, patches>>

\* line 185, leaving the with-block: save returns None.
SvReturn ==
    /\ pc = "sv_done"
    /\ Return(0)
    /\ UNCHANGED <<fs, file_path, clock, call, wf, run, orig, made, calls, patches>>

\* ------------------------------------- FastPCXEditor.find_section_positions

\* lines 22-26, the loop from the line at byte offset p on: re.match with
\* the pattern "^ADD <section_name>" is a prefix test of the line.
RECURSIVE FspLoop(_, _, _, _, _)
FspLoop(bytes, section_name, p, position, positions) ==
    LET line == LineAt(bytes, p)
        told == TellInLoop(LineEnd(bytes, p))
    IN  IF line = <<>> THEN Returned(positions)                    \* line 28
        ELSE IF told.raised THEN Raised                            \* line 26
        ELSE FspLoop(bytes, section_name, LineEnd(bytes, p), told.value,
                     IF StartsWith(line, P_ADD \o section_name)
                     THEN Append(positions, position) ELSE positions)

\* lines 16-28
FindSectionPositions(bytes, section_name) == FspLoop(bytes, section_name, 0, 0, <<>>)

\* ------------------------------------------ FastPCXEditor.insert_rules_fast

CallInsertRulesFast ==
    /\ CanCall
    /\ patches < MaxPatches
    /\ patches' = patches + 1
    /\ \E new \in Blocks : Begin("insert_rules_fast", NoAt, new, "", "irf_find")
    /\ calls' = calls + 1
    /\ UNCHANGED <<fs, file_path, clock, handles, wf, run, made, hist>>

\* line 54: insert_pos = self.find_last_rule_position()
IrfFind ==
    /\ pc = "irf_find"
    /\ \/ /\ Exists(Target)
          /\ ~FindLastRulePosition(fs[Target]).raised
          /\ call' = [call EXCEPT !.at = FindLastRulePosition(fs[Target]).value]
          /\ pc' = "irf_open_src"
          /\ UNCHANGED <<handles, wf, result>>
       \/ /\ Exists(Target)
          /\ FindLastRulePosition(fs[Target]).raised
          /\ RaiseFor("code")
          /\ UNCHANGED call
       \/ Raise /\ UNCHANGED call
    /\ UNCHANGED <<fs, file_path, clock, run, orig, made, hist, calls, patches>>

\* line 59: open(self.file_path, 'rb')
IrfOpenSrc ==
    /\ pc = "irf_open_src"
    /\ \/ /\ Exists(Target)
          /\ handles' = handles \cup {"source"}
          /\ pc' = "irf_open_dst"
          /\ UNCHANGED <<wf, result>>
       \/ Raise
    /\ UNCHANGED <<fs, file_path, clock, call, run, orig, made, hist, calls, patches>>

\* line 60: open(self.temp_file, 'wb')
IrfOpenDst ==
    /\ pc = "irf_open_dst"
    /\ \/ /\ fs' = Put(fs, TempPath(file_path), <<>>)
          /\ handles' = handles \cup {"target"}
          /\ pc' = "irf_read_head"
          /\ UNCHANGED <<wf, result>>
       \/ Raise /\ UNCHANGED fs
    /\ UNCHANGED <<file_path, clock, call, run, orig, made, hist, calls, patches>>

\* lines 62-63: source.seek(0); source.read(insert_pos)
IrfReadHead ==
    /\ pc = "irf_read_head"
    /\ \/ /\ LET data == ReadAt(fs[Target], 0, call.at)
             IN  call' = [call EXCEPT !.chunk = data, !.pos = Len(data)]
          /\ pc' = "irf_write_head"
          /\ UNCHANGED <<handles, wf, result>>
       \/ Raise /\ UNCHANGED call
    /\ UNCHANGED <<fs, file_path, clock, run, orig, made, hist, calls, patches>>

\* line 63: target.write(...)
IrfWriteHead ==
    /\ pc = "irf_write_head"
    /\ Write(TempPath(file_path), call.chunk, "irf_sep1")
    /\ UNCHANGED <<file_path, clock, call, run, orig, made, hist, calls, patches>>

\* line 66: target.write(b'\n\n')
IrfSep1 ==
    /\ pc = "irf_sep1"
    /\ Write(TempPath(file_path), SEP, "irf_new")
    /\ UNCHANGED <<file_path, clock, call, run, orig, made, hist, calls, patches>>

\* line 67: target.write(new_rules.encode('utf-8'))
IrfNew ==
    /\ pc = "irf_new"
    /\ Write(TempPath(file_path), Utf8(call.new), "irf_sep2")
    /\ UNCHANGED <<file_path, clock, call, run, orig, made, hist, calls, patches>>

\* lines 68, 71: target.write(b'\n\n'); source.seek(insert_pos)
IrfSep2 ==
    /\ pc = "irf_sep2"
    /\ Write(TempPath(file_path), SEP, "irf_read")
    /\ call' = [call EXCEPT !.pos = call.at]
    /\ UNCHANGED <<file_path, clock, run, orig, made, hist, calls, patches>>

\* lines 74-76: chunk = source.read(chunk_size); if not chunk: break
IrfRead ==
    /\ pc = "irf_read"
    /\ \/ /\ LET chunk == ReadAt(fs[Target], call.pos, ChunkBytes)
             IN  /\ call' = [call EXCEPT !.chunk = chunk, !.pos = @ + Len(chunk)]
                 /\ pc' = IF chunk = <<>> THEN "irf_close" ELSE "irf_write"
          /\ UNCHANGED <<handles, wf, result>>
       \/ Raise /\ UNCHANGED call
    /\ UNCHANGED <<fs, file_path, clock, run, orig, made, hist, calls, patches>>

\* line 77: target.write(chunk)
IrfWrite ==
    /\ pc = "irf_write"
    /\ Write(TempPath(file_path), call.chunk, "irf_read")
    /\ UNCHANGED <<file_path, clock, call, run, orig, made, hist, calls, patches>>

\* lines 59-60, leaving the with-blocks: both handles are closed.
IrfClose ==
    /\ pc = "irf_close"
    /\ \/ /\ handles' = {}
          /\ pc' = "irf_rename_orig"
          /\ UNCHANGED <<wf, result>>
       \/ Raise
    /\ UNCHANGED <<fs, file_path, clock, call, run, orig, made, hist, calls, patches>>

\* lines 80-87: the backup path is named from the clock now, and
\* self.file_path.rename(backup) moves the original there.
IrfRenameOrig ==
    /\ pc = "irf_rename_orig"
    /\ \/ /\ Exists(Target)
          /\ LET backup == BackupPathTxt(file_path, clock)
             IN  /\ fs' = Rename(fs, Target, backup)
                 /\ call' = [call EXCEPT !.bak = backup]
                 /\ made' = Put(made, backup, [content |-> fs[Target], source |-> orig])
          /\ pc' = "irf_rename_temp"
          /\ UNCHANGED <<handles, wf, result>>
       \/ Raise /\ UNCHANGED <<fs, call, made>>
    /\ UNCHANGED <<file_path, clock, run, orig, hist, calls, patches>>

\* line 88: self.temp_file.rename(self.file_path)
IrfRenameTemp ==
    /\ pc = "irf_rename_temp"
    /\ \/ /\ Exists(TempPath(file_path))
          /\ fs' = Rename(fs, TempPath(file_path), Target)
          /\ pc' = "irf_done"
          /\ UNCHANGED <<handles, wf, result>>
       \/ Raise /\ UNCHANGED fs
    /\ UNCHANGED <<file_path, clock, call, run, orig, made, hist, calls, patches>>

\* lines 90-91: return True
IrfReturn ==
    /\ pc = "irf_done"
    /\ Return(1)
    /\ UNCHANGED <<fs, file_path, clock, call, wf, run, orig, made, calls, patches>>

insert_rules_fast ==
    \/ IrfFind \/ IrfOpenSrc \/ IrfOpenDst \/ IrfReadHead \/ IrfWriteHead
    \/ IrfSep1 \/ IrfNew \/ IrfSep2 \/ IrfRead \/ IrfWrite \/ IrfClose
    \/ IrfRenameOrig \/ IrfRenameTemp \/ IrfReturn

\* ------------------------------------------- TaxReportModule.create_backup

\* lines 211-215: the backup path is named from the clock at the call.
CallCreateBackup ==
    /\ CanCall
    /\ Begin("create_backup", NoAt, <<>>, BackupPathInDir(file_path, clock), "cb_open")
    /\ calls' = calls + 1
    /\ UNCHANGED <<fs, file_path, clock, handles, wf, run, made, hist, patches>>

\* line 216, shutil.copy2 opening the source and the destination.
CbOpen ==
    /\ pc = "cb_open"
    /\ \/ /\ Exists(Target)
          /\ fs' = Put(fs, call.bak, <<>>)
          /\ handles' = handles \cup {"fsrc", "fdst"}
          /\ pc' = "cb_copy"
          /\ UNCHANGED <<wf, result>>
       \/ Raise /\ UNCHANGED fs
    /\ UNCHANGED <<file_path, clock, call, run, orig, made, hist, calls, patches>>

\* line 216, shutil.copy2 copying the content and closing both files.
CbCopy ==
    /\ pc = "cb_copy"
    /\ Write(call.bak, fs[Target], "cb_done")
    /\ UNCHANGED <<file_path, clock, call, run, orig, made, hist, calls, patches>>

\* lines 217-218: print_success(...); return backup_path
CbReturn ==
    /\ pc = "cb_done"
    /\ Return(call.bak)
    /\ made' = Put(made, call.bak, [content |-> fs[call.bak], source |-> orig])
    /\ UNCHANGED <<fs, file_path, clock, call, wf, run, orig, calls, patches>>

create_backup == CbOpen \/ CbCopy \/ CbReturn

\* ------------------------------------------------- the scanners, as calls

CallFindInsertionPoint ==
    /\ CanCall
    /\ \E after_section \in Sections :
          BeginWith([NoCall EXCEPT !.fn = "find_insertion_point",
                                   !.after_section = after_section], "fip_scan")
    /\ calls' = calls + 1
    /\ UNCHANGED <<fs, file_path, clock, handles, wf, run, made, hist, patches>>

\* find_insertion_point in ChunkSpec: the chunk of the first pass is scaled
\* down.  What f.tell() returns after a chunk that ends before a CR or a
\* dropped byte depends on the decoder's buffer, so a file with such bytes
\* is read as one chunk, as the code reads every file below 1 MiB.
CallFindInsertionPointScaled ==
    /\ CanCall
    /\ \E after_section \in Sections, chunk_size \in {ScanChunkChars, NoCall.chunk_size} :
          /\ \/ chunk_size >= Len(ReadText(Content(Target)).text)
             \/ /\ ~DecodeStrict(Content(Target)).raised
                /\ \A i \in DOMAIN Content(Target) : Content(Target)[i] # 13
          /\ BeginWith([NoCall EXCEPT !.fn = "find_insertion_point",
                                      !.after_section = after_section,
                                      !.chunk_size = chunk_size], "fip_scan")
    /\ calls' = calls + 1
    /\ UNCHANGED <<fs, file_path, clock, handles, wf, run, made, hist, patches>>

\* A faulty variant: the handle is kept open from one call to the next, and
\* a later first pass starts at the end of the file and finds nothing.
FipScanKeptOpen ==
    /\ pc = "fip_scan"
    /\ \/ /\ Exists(Target)
          /\ call' = [call EXCEPT !.pos =
                          IF hist # <<>> THEN 0
                          ELSE FipFirstPassIn(fs[Target], P_ADD \o call.after_section,
                                              call.chunk_size, 0, 0)]
          /\ pc' = "fip_end"
          /\ UNCHANGED <<handles, wf, result, hist>>
       \/ Raise /\ UNCHANGED <<call, hist>>
    /\ UNCHANGED <<fs, file_path, clock, wf, run, orig, made, calls, patches>>

\* large_file_handler.py lines 26-41: the first pass leaves last_position
\* (in pos); only reads.
FipScan ==
    /\ pc = "fip_scan"
    /\ \/ /\ Exists(Target)
          /\ call' = [call EXCEPT !.pos =
                          FipFirstPassIn(fs[Target], P_ADD \o call.after_section,
                                         call.chunk_size, 0, 0)]
          /\ pc' = "fip_end"
          /\ UNCHANGED <<handles, wf, result, hist>>
       \/ Raise /\ UNCHANGED <<call, hist>>
    /\ UNCHANGED <<fs, file_path, clock, wf, run, orig, made, calls, patches>>

\* large_file_handler.py lines 43-52: f.seek(last_position) and the second
\* pass; only reads.  When bytes that are dropped on read follow the line
\* read last, f.tell() counts them or not, depending on the decoder's
\* buffer.
FipEnd ==
    /\ pc = "fip_end"
    /\ \/ /\ Exists(Target)
          /\ LET bytes == fs[Target]
                 e == FipSecondPass(bytes, call.pos)
                 ends == ReadText(bytes).ends
                 read(i) == \E k \in DOMAIN ends :
                                \/ ends[k] = i
                                \/ ends[k] = i + 1 /\ bytes[i + 1] >= 128
                 dropped(i) == bytes[i] >= 128 /\ ~read(i)
             IN  \E d \in 0..(Len(bytes) - e) :
                    /\ \A j \in 1..d : dropped(e + j)
                    /\ Return(e + d)
       \/ Raise /\ UNCHANGED hist
    /\ UNCHANGED <<fs, file_path, clock, call, wf, run, orig, made, calls, patches>>

CallFindLastRulePosition ==
    /\ CanCall
    /\ Begin("find_last_rule_position", NoAt, <<>>, "", "flrp_scan")
    /\ calls' = calls + 1
    /\ UNCHANGED <<fs, file_path, clock, handles, wf, run, made, hist, patches>>

CallFindSectionPositions ==
    /\ CanCall
    /\ \E section_name \in Sections :
          BeginWith([NoCall EXCEPT !.fn = "find_section_positions",
                                   !.after_section = section_name], "fsp_scan")
    /\ calls' = calls + 1
    /\ UNCHANGED <<fs, file_path, clock, handles, wf, run, made, hist, patches>>

\* fast_pcx_editor.py lines 21-28: the scan; only reads.
FspScan ==
    /\ pc = "fsp_scan"
    /\ LET found == FindSectionPositions(Content(Target), call.after_section)
       IN  \/ Exists(Target) /\ ~found.raised /\ Return(found.value)
           \/ Exists(Target) /\ found.raised /\ RaiseFor("code") /\ UNCHANGED hist
           \/ Raise /\ UNCHANGED hist
    /\ UNCHANGED <<fs, file_path, clock, call, wf, run, orig, made, calls, patches>>

\* fast_pcx_editor.py lines 36-49: the scan; only reads.
FlrpScan ==
    /\ pc = "flrp_scan"
    /\ \/ /\ Exists(Target)
          /\ ~FindLastRulePosition(fs[Target]).raised
          /\ Return(FindLastRulePosition(fs[Target]).value)
       \/ /\ Exists(Target)
          /\ FindLastRulePosition(fs[Target]).raised
          /\ RaiseFor("code")
          /\ UNCHANGED hist
       \/ Raise /\ UNCHANGED hist
    /\ UNCHANGED <<fs, file_path, clock, call, wf, run, orig, made, calls, patches>>

\* ------------------- TaxReportModule.process_ticket_231589, existing file

\* TaxReportTemplate.generate_consolidated(['147'], reports): rules joined
\* by newlines, each an 'ADD RULE' line and its indented lines, the text
\* ending with a newline.  One short rule stands for the generated text.
GeneratedContent == L_RULE \o L_FIELD

\* What the operator types at a prompt: ' Y', 'yes', 'n', or nothing.
Responses == {<<32, 89>>, <<121, 101, 115>>, <<110>>, <<>>}

\* A faulty variant: everything but 'n' is a yes.
ConfirmActionUnlessNo(response) == Lower(Strip(response)) # <<110>>

\* modules/__init__.py lines 64-65:
\* response = input(...).strip().lower(); return response == 'y'
ConfirmAction(response) == Lower(Strip(response)) = <<121>>

\* The run with the operator's response to a prompt recorded.
Answered(prompt, response) ==
    [run EXCEPT !.answers = Append(@, [prompt |-> prompt, response |-> response])]

\* The workflow returns to the menu.
TkReturn ==
    /\ wf' = "none"
    /\ result' = [NoResult EXCEPT !.fn = "process_ticket_231589", !.status = "ok",
                                  !.where = wf]

\* An OSError raised in the workflow's own statements; nothing catches it.
TkRaise ==
    /\ wf' = "none"
    /\ result' = [NoResult EXCEPT !.fn = "process_ticket_231589",
                                  !.status = "raised", !.where = wf, !.why = "io"]

\* lines 70-87: option 1, the path entered is the export file; "File not
\* found!" returns; the import of the handler succeeds or raises
\* ImportError, which selects the fallback of lines 133-146.
TkStart ==
    /\ CanCall
    /\ patches < MaxPatches
    /\ patches' = patches + 1
    /\ calls' = calls + 1
    /\ IF ~Exists(Target)
       THEN /\ TkReturn
            /\ run' = [NoRun EXCEPT !.start = Content(Target)]
       ELSE /\ \E importable \in BOOLEAN :
                  /\ wf' = IF importable THEN "validate" ELSE "fb_backup"
                  /\ run' = [NoRun EXCEPT !.start = Content(Target),
                                          !.handler = importable]
            /\ result' = [NoResult EXCEPT !.fn = "process_ticket_231589",
                                          !.status = "running"]
    /\ UNCHANGED <<fs, file_path, clock, pc, call, handles, orig, made, hist>>

\* lines 92-98: validate_structure() only reads; with issues the operator
\* is asked whether to continue.
TkValidate ==
    /\ wf = "validate"
    /\ \/ /\ Exists(Target)
          /\ LET is_valid == ValidateStructure(fs[Target]).is_valid
             IN  /\ run' = [run EXCEPT !.is_valid = is_valid]
                 /\ wf' = IF is_valid THEN "backup" ELSE "ask_continue"
          /\ UNCHANGED result
       \/ TkRaise /\ UNCHANGED run
    /\ UNCHANGED <<fs, file_path, clock, pc, call, handles, orig, made, hist, calls, patches>>

\* lines 97-98: confirm_action("Continue anyway?")
TkContinueAnyway ==
    /\ wf = "ask_continue"
    /\ \E response \in Responses :
          /\ run' = Answered("Continue anyway?", response)
          /\ IF ConfirmAction(response)
             THEN wf' = "backup" /\ UNCHANGED result
             ELSE TkReturn
    /\ UNCHANGED <<fs, file_path, clock, pc, call, handles, orig, made, hist, calls, patches>>

\* line 101: backup_path = handler.backup_file()
TkBackup ==
    /\ wf = "backup"
    /\ Begin("backup_file", NoAt, <<>>, BackupPathTxt(file_path, clock), "bk_open_src")
    /\ wf' = "in_backup"
    /\ UNCHANGED <<fs, file_path, clock, handles, run, made, hist, calls, patches>>

\* lines 101-114: backup_file has returned; the content is generated and
\* position = handler.find_insertion_point(after_section="RULESET").
TkFind ==
    /\ wf = "in_backup"
    /\ pc = "idle"
    /\ \/ /\ Exists(Target)
          /\ run' = [run EXCEPT !.backup_path = result.value,
                                !.position = FindInsertionPoint(fs[Target], S_RULESET)]
          /\ wf' = "ask_ready"
          /\ UNCHANGED result
       \/ TkRaise /\ UNCHANGED run
    /\ UNCHANGED <<fs, file_path, clock, pc, call, handles, orig, made, hist, calls, patches>>

\* lines 116-120: confirm_action("Ready to add ..."), and on yes
\* handler.append_content(new_content, at_position=position).
TkReady ==
    /\ wf = "ask_ready"
    /\ \E response \in Responses :
          /\ run' = Answered("Ready to add", response)
          /\ IF ConfirmAction(response)
             THEN /\ Begin("append_content", run.position, GeneratedContent, "",
                           "ap_open_src")
                  /\ wf' = "in_append"
             ELSE TkReturn /\ UNCHANGED <<pc, call, orig>>
    /\ UNCHANGED <<fs, file_path, clock, handles, made, hist, calls, patches>>

\* lines 122-131: append_content has returned; the summary is printed.
TkDone ==
    /\ wf = "in_append"
    /\ pc = "idle"
    /\ TkReturn
    /\ UNCHANGED <<fs, file_path, clock, pc, call, handles, run, orig, made, hist, calls, patches>>

\* line 138: backup_path = self.create_backup(file_path)
TkFallbackBackup ==
    /\ wf = "fb_backup"
    /\ Begin("create_backup", NoAt, <<>>, BackupPathInDir(file_path, clock), "cb_open")
    /\ wf' = "fb_in_backup"
    /\ UNCHANGED <<fs, file_path, clock, handles, run, made, hist, calls, patches>>

\* lines 138-143: create_backup has returned;
\* self.generate_consolidated_reports(file_path, companies, reports)
TkFallbackAppend ==
    /\ wf = "fb_in_backup"
    /\ pc = "idle"
    /\ run' = [run EXCEPT !.backup_path = result.value]
    /\ Begin("generate_consolidated_reports", NoAt, GeneratedContent, "", "gc_open")
    /\ wf' = "fb_in_append"
    /\ UNCHANGED <<fs, file_path, clock, handles, made, hist, calls, patches>>

\* line 233: open(file_path, 'a'); an error is caught by line 243.
GcOpen ==
    /\ pc = "gc_open"
    /\ \/ /\ fs' = (IF Exists(Target) THEN fs ELSE Put(fs, Target, <<>>))
          /\ handles' = handles \cup {"f"}
          /\ pc' = "gc_write"
       \/ /\ pc' = "gc_failed"
          /\ UNCHANGED <<fs, handles>>
    /\ UNCHANGED <<file_path, clock, call, wf, run, result, orig, made, hist, calls, patches>>

\* line 234: f.write(new_content) at the end of the export file itself
\* (the generated text is ASCII, whatever the locale's encoding); a failing
\* write may leave part of it, and the error is caught by line 243.
GcWrite ==
    /\ pc = "gc_write"
    /\ \/ /\ fs' = Put(fs, Target, fs[Target] \o Utf8(call.new))
          /\ pc' = "gc_done"
       \/ /\ fs' = Put(fs, Target, fs[Target] \o Partial(Utf8(call.new)))
          /\ pc' = "gc_failed"
    /\ handles' = {}
    /\ UNCHANGED <<file_path, clock, call, wf, run, result, orig, made, hist, calls, patches>>

\* lines 241, 245: return True, or False after a caught error.
GcReturn ==
    /\ pc \in {"gc_done", "gc_failed"}
    /\ Return(IF pc = "gc_done" THEN 1 ELSE 0)
    /\ UNCHANGED <<fs, file_path, clock, call, wf, run, orig, made, calls, patches>>

generate_consolidated_reports == GcOpen \/ GcWrite \/ GcReturn

\* lines 141-146: generate_consolidated_reports has returned.
TkFallbackDone ==
    /\ wf = "fb_in_append"
    /\ pc = "idle"
    /\ TkReturn
    /\ UNCHANGED <<fs, file_path, clock, pc, call, handles, run, orig, made, hist, calls, patches>>

\* ----------------------------------------------------------------- retry

\* The steps that write to the temp file.
TempWriteSteps ==
    {"ap_write_head", "ap_sep1", "ap_new", "ap_sep2", "ap_write",
     "irf_write_head", "irf_sep1", "irf_new", "irf_sep2", "irf_write"}

\* After a positional insert has ended with an I/O error in a write to the
\* temp file, the tool is started again and the same insert is called on
\* the file as it is now.
CallRetry ==
    /\ pc = "idle"
    /\ wf = "none"
    /\ calls < MaxCalls
    /\ call.fn \in {"append_content", "insert_rules_fast"} /\ result.fn = call.fn
    /\ result.status = "raised" /\ result.where \in TempWriteSteps
    /\ BeginWith([NoCall EXCEPT !.fn = call.fn,
                                !.at = IF call.fn = "append_content" THEN call.at ELSE NoAt,
                                !.new = call.new,
                                !.attempt = call.attempt + 1],
                 IF call.fn = "append_content" THEN "ap_open_src" ELSE "irf_find")
    /\ calls' = calls + 1
    /\ UNCHANGED <<fs, file_path, clock, handles, wf, run, made, hist, patches>>

\* ------------------------------------------------------- manual recovery

\* The operator reverts the export file to a backup: the target is
\* overwritten with the content of a backup file the tool created.  This is
\* done by hand, also after the tool has ended with an error.
Revert ==
    /\ pc = "idle"
    /\ wf = "none"
    /\ result.fn # "revert"
    /\ \E b \in DOMAIN made :
          /\ Exists(b)
          /\ fs' = Put(fs, Target, fs[b])
          /\ result' = [result EXCEPT !.fn = "revert", !.value = b]
    /\ UNCHANGED <<file_path, clock, pc, call, handles, wf, run, orig, made, hist, calls, patches>>

Next ==
    \/ Tick
    \/ CallBackupFile
    \/ backup_file
    \/ CallAppendContent
    \/ append_content
    \/ CallInsertRulesFast
    \/ insert_rules_fast
    \/ CallCreateBackup
    \/ create_backup
    \/ Revert

Spec == Init /\ [][Next]_vars

\* The existing-file workflow of ticket #231589 on export files of text
\* lines.
TicketInit == InitOn(TicketFiles)

TicketNext ==
    \/ Tick
    \/ TkStart
    \/ TkValidate
    \/ TkContinueAnyway
    \/ TkBackup
    \/ backup_file
    \/ TkFind
    \/ TkReady
    \/ append_at_position
    \/ TkDone
    \/ TkFallbackBackup
    \/ create_backup
    \/ TkFallbackAppend
    \/ generate_consolidated_reports
    \/ TkFallbackDone

TicketSpec == TicketInit /\ [][TicketNext]_vars

\* ------------------------------------------------ the validators, as calls

CallValidateStructure ==
    /\ CanCall
    /\ Begin("validate_structure", NoAt, <<>>, "", "vs_scan")
    /\ calls' = calls + 1
    /\ UNCHANGED <<fs, file_path, clock, handles, wf, run, made, hist, patches>>

\* large_file_handler.py lines 145-160: the scan; only reads.
VsScan ==
    /\ pc = "vs_scan"
    /\ \/ /\ Exists(Target)
          /\ LET v == ValidateStructure(fs[Target])
             IN  Return([is_valid |-> v.is_valid, issues |-> v.issues])
       \/ Raise /\ UNCHANGED hist
    /\ UNCHANGED <<fs, file_path, clock, call, wf, run, orig, made, calls, patches>>

\* PCXValidator.validate_file(file_path), a static method: on the export
\* file or on a path where there is no file.
CallValidateFile ==
    /\ CanCall
    /\ \E path \in {Target, MissingPath} :
          BeginWith([NoCall EXCEPT !.fn = "validate_file", !.path = path], "vf_exists")
    /\ calls' = calls + 1
    /\ UNCHANGED <<fs, file_path, clock, handles, wf, run, made, hist, patches>>

\* pcx_validator.py lines 24-25
VfExists ==
    /\ pc = "vf_exists"
    /\ IF Exists(call.path)
       THEN /\ pc' = "vf_read"
            /\ UNCHANGED <<handles, result, hist>>
       ELSE Return([is_valid |-> FALSE, issues |-> <<"File does not exist">>])
    /\ UNCHANGED <<fs, file_path, clock, call, wf, run, orig, made, calls, patches>>

\* pcx_validator.py lines 27-69: stat, open, read and the checks; only reads.
VfRead ==
    /\ pc = "vf_read"
    /\ \/ /\ Exists(call.path)
          /\ ~ValidateFile(fs[call.path]).raised
          /\ LET v == ValidateFile(fs[call.path])
             IN  Return([is_valid |-> v.is_valid, issues |-> v.issues])
       \/ /\ Exists(call.path)
          /\ ValidateFile(fs[call.path]).raised
          /\ RaiseFor("code")
          /\ UNCHANGED hist
       \/ Raise /\ UNCHANGED hist
    /\ UNCHANGED <<fs, file_path, clock, call, wf, run, orig, made, calls, patches>>

\* The validators applied to files of text lines.
ValidateInit == InitAt(FilePaths, ValidateFiles)

ValidateNext ==
    \/ CallValidateStructure
    \/ VsScan
    \/ CallValidateFile
    \/ VfExists
    \/ VfRead

ValidateSpec == ValidateInit /\ [][ValidateNext]_vars

\* The three makers of backups on export files of either suffix.
SuffixInit == InitAt(SuffixPaths, Files)

SuffixNext ==
    \/ Tick
    \/ CallBackupFile
    \/ backup_file
    \/ CallInsertRulesFast
    \/ insert_rules_fast
    \/ CallCreateBackup
    \/ create_backup

SuffixSpec == SuffixInit /\ [][SuffixNext]_vars

\* The scanners applied to export files of text lines.
ScanInit == InitOn(ScanFiles)

ScanNext ==
    \/ CallFindInsertionPoint
    \/ FipScan
    \/ FipEnd
    \/ CallFindLastRulePosition
    \/ FlrpScan
    \/ CallFindSectionPositions
    \/ FspScan

ScanSpec == ScanInit /\ [][ScanNext]_vars

\* The scanners called again and again on the shorter export files.
RescanInit ==
    InitOn(FilesOfLines({L_RULESET, L_RULE, L_DESTINATION, L_FIELD, L_COMPONENT, L_ACCENT},
                        MaxTicketLines))

RescanSpec == RescanInit /\ [][ScanNext]_vars

\* find_insertion_point with a scaled chunk on export files of text lines
\* of every encoding.
ChunkInit == InitAt(FilePaths, ChunkFiles)

ChunkNext ==
    \/ CallFindInsertionPointScaled
    \/ FipScan
    \/ FipEnd

ChunkSpec == ChunkInit /\ [][ChunkNext]_vars

\* A file of the directory the tool has nothing to do with, and a file that
\* bears the name of the temp file before the tool is started; neither
\* holds bytes the tool writes.
Bystander == "srv/notes.txt" :> <<79>>

StaleTemps == {TempPath(p) :> <<84>> : p \in FilePaths}

\* The positional inserts, and their retry after a failed write, in a
\* directory that holds other files.
DirInit == InitIn(FilePaths, Files, {Bystander} \cup {Bystander @@ t : t \in StaleTemps})

DirNext ==
    \/ CallAppendContent
    \/ append_content
    \/ CallInsertRulesFast
    \/ insert_rules_fast
    \/ CallRetry

DirSpec == DirInit /\ [][DirNext]_vars

\* The schema manager: an export file of text lines is parsed and saved.
SchemaInit == InitOn(SchemaFiles)

SchemaNext ==
    \/ CallNewManager
    \/ PmParse
    \/ CallSave
    \/ SvOpen
    \/ SvWrite
    \/ SvReturn

SchemaSpec == SchemaInit /\ [][SchemaNext]_vars

\* ================================================================ claims

\* F[:o] + b'\n\n' + utf8(B) + b'\n\n' + F[o:]
Splice(F, o, B) == Take(F, o) \o SEP \o Utf8(B) \o SEP \o Drop(F, o)

\* The names of the methods that have returned so far.
Methods == [i \in 1..Len(hist) |-> hist[i].fn]

\* The running or just-ended method is fn (no other call or revert since).
Current(fn) == call.fn = fn /\ result.fn = fn

\* A positional insert that has ended without an I/O error leaves the
\* spliced file (any offset, also one past the end of the file).
SpliceOnSuccess ==
    (/\ pc = "idle" /\ result.status = "ok"
     /\ \/ Current("append_content") /\ Positional(call.at)
        \/ Current("insert_rules_fast"))
    => Content(Target) = Splice(orig, call.at, call.new)

\* C1 (as claimed): for every file F, offset 0 <= o <= len(F) and block B,
\* when append_content(B, at_position=o), or insert_rules_fast with o its
\* computed offset, has ended with no I/O error, the target file equals
\* F[:o] + "\n\n" + utf8(B) + "\n\n" + F[o:].
C1_SpliceLaw ==
    /\ (/\ pc = "idle" /\ Current("append_content") /\ result.why # "io"
        /\ call.at \in 0 .. Len(orig))
       => Content(Target) = Splice(orig, call.at, call.new)
    /\ (pc = "idle" /\ Current("insert_rules_fast") /\ result.why # "io")
       => /\ call.at \in 0 .. Len(orig)
          /\ Content(Target) = Splice(orig, call.at, call.new)

\* The final replace of append_content has happened.
Replaced == pc = "ap_done" \/ (pc = "idle" /\ result.status = "ok")

\* C2: in every state of a positional append_content, also after an I/O
\* error and at every step boundary an interruption can fall on, the
\* target exists and holds the complete pre-patch content until the final
\* replace and the complete patched content after it.
C2_TargetPreOrPatched ==
    (Current("append_content") /\ Positional(call.at))
    => /\ Exists(Target)
       /\ fs[Target] = IF Replaced THEN Splice(orig, call.at, call.new) ELSE orig

\* An I/O error in the middle of the copy loop of a positional insert into
\* a non-empty file, the temp file half written.
C2_Witness ==
    /\ Current("append_content") /\ Positional(call.at)
    /\ result.status = "raised" /\ result.where = "ap_write"
    /\ orig # <<>>
    /\ Content(TempPath(file_path)) \notin {Absent, <<>>, Splice(orig, call.at, call.new)}

\* C3: after a write to the temp file has failed, in append_content with a
\* position or in insert_rules_fast, no replace or rename step can run, the
\* temp file and the original have not been renamed, and the target is
\* byte-identical to its content before the call.
C3_FailedWriteLeavesTarget ==
    (/\ Current("append_content") \/ Current("insert_rules_fast")
     /\ result.status = "raised" /\ result.where \in TempWriteSteps)
    => /\ Content(Target) = orig
       /\ Exists(TempPath(file_path))
       /\ call.bak = ""
       /\ pc \notin {"ap_replace", "irf_rename_orig", "irf_rename_temp"}
       /\ pc = "idle"

\* The write of the new block fails, in append_content with a position on
\* a non-empty file.
C3_Witness ==
    /\ Current("append_content")
    /\ result.status = "raised" /\ result.where = "ap_new"
    /\ orig # <<>>
    /\ Content(TempPath(file_path)) # Absent

\* C4 (as claimed): in every state of insert_rules_fast the target path
\* exists and holds the full pre-patch or the full patched content.
C4_NoWindow ==
    Current("insert_rules_fast")
    => /\ Exists(Target)
       /\ \/ fs[Target] = orig
          \/ call.at # NoAt /\ fs[Target] = Splice(orig, call.at, call.new)

\* Patched content has been written in the running workflow or call: into
\* the temp file, or (the fallback's in-place append) into the target.
PatchWritten ==
    \/ Content(TempPath(file_path)) \notin {Absent, <<>>}
    \/ Current("generate_consolidated_reports") /\ Content(Target) # orig

\* The existing-file workflow has written patched content only after its
\* backup (backup_file, or create_backup in the fallback) had returned, the
\* backup then holding the content the workflow started on.
TicketBackupFirst ==
    (wf \in {"in_append", "fb_in_append"} /\ PatchWritten)
    => /\ run.backup_path \in DOMAIN made
       /\ made[run.backup_path].content = run.start

\* C5 (as claimed): on every path that patches an existing file, the
\* workflow of process_ticket_231589 and insert_rules_fast, no patched
\* content has been written (to the temp file, onto the target, or in
\* place) unless a backup of the target has completed before in that run.
C5_BackupBeforePatch ==
    /\ TicketBackupFirst
    /\ (Current("insert_rules_fast") /\ PatchWritten) => call.bak \in DOMAIN made

\* C6: after backup_file() on a file F, then append_content(B,
\* at_position=o), overwriting the target with the content of the backup
\* yields exactly the bytes of F, the content the file had when the backup
\* was taken (and, the patch having been the last call and having ended
\* without error, when the patch was started).
C6_RevertRecovers ==
    (/\ result.fn = "revert"
     /\ call.fn = "append_content" /\ Positional(call.at)
     /\ Methods = <<"backup_file", "append_content">>)
    => /\ fs[Target] = made[result.value].source
       /\ result.status = "ok" => fs[Target] = orig

\* backup_file on a file holding a byte that is no UTF-8, then a positional
\* append_content inside the file, then the revert.
C6_Witness ==
    /\ result.fn = "revert"
    /\ call.fn = "append_content" /\ call.at = 1
    /\ Methods = <<"backup_file", "append_content">>
    /\ orig = <<65, 255>>
    /\ fs[Target] = orig

\* C7: in every state of backup_file and of create_backup, also after the
\* copy failed partway, the source file holds what it held at the call.
C7_BackupLeavesSource ==
    (Current("backup_file") \/ Current("create_backup"))
    => Content(Target) = orig

\* backup_file fails in the middle of the copy of a non-empty file.
C7_Witness ==
    /\ Current("backup_file")
    /\ result.status = "raised" /\ result.where = "bk_write"
    /\ Content(call.bak) # orig

\* C8 (as claimed): every backup created so far exists and holds the
\* content it was created with.
C8_BackupsImmutable ==
    \A b \in DOMAIN made : Content(b) = made[b].content

\* The offsets at which a line of bytes starts, and the end of the file.
LineStarts(bytes) == {0, Len(bytes)} \cup {i \in 1 .. Len(bytes) : bytes[i] = NL}

\* The line at offset s is indented (a field line or a sub-block of a block).
Indented(bytes, s) == s < Len(bytes) /\ bytes[s + 1] \in {9, 32}

\* The line at offset s is a top-level marker line.
MarkerAt(bytes, s) == s < Len(bytes) /\ StartsWith(LineAt(bytes, s), P_ADD)

\* Offset v lies between a block's marker line and indented lines of that
\* block.
InsideBlock(bytes, v) ==
    /\ Indented(bytes, v)
    /\ \E m \in LineStarts(bytes) :
          /\ m < v
          /\ MarkerAt(bytes, m)
          /\ \A s \in LineStarts(bytes) : (m < s /\ s < v) => Indented(bytes, s)

\* What find_insertion_point returns is the start of a line or the end of
\* the file.
FipOnLineBoundary ==
    (Current("find_insertion_point") /\ result.status = "ok")
    => result.value \in LineStarts(orig)

\* C9 (as claimed): for every file and section type, the offset
\* find_insertion_point returns is on a line boundary and does not fall
\* between a block's marker line and that block's indented lines.
C9_InsertionPointOutsideBlocks ==
    (Current("find_insertion_point") /\ result.status = "ok")
    => /\ result.value \in LineStarts(orig)
       /\ ~InsideBlock(orig, result.value)

\* The offsets of the lines find_last_rule_position takes for the start of
\* a RULE block, and of the other top-level marker lines.
RuleStarts(bytes) ==
    {s \in LineStarts(bytes) : StartsWith(LineAt(bytes, s), P_ADD_RULE)}
OtherMarkers(bytes) ==
    {s \in LineStarts(bytes) : /\ StartsWith(LineAt(bytes, s), P_ADD)
                               /\ ~StartsWith(LineAt(bytes, s), P_ADD_RULE)}

\* RULE blocks occur, another top-level section follows, RULE blocks recur,
\* and another top-level section follows the last of them.
RulesRecur(bytes) ==
    /\ \E r1 \in RuleStarts(bytes), m \in OtherMarkers(bytes), r2 \in RuleStarts(bytes) :
          r1 < m /\ m < r2
    /\ \E e \in OtherMarkers(bytes) : \A r \in RuleStarts(bytes) : r < e

\* The offset of the first other marker line after the last RULE block.
LastRuleEnd(bytes) ==
    CHOOSE e \in OtherMarkers(bytes) :
        /\ \A r \in RuleStarts(bytes) : r < e
        /\ \A d \in OtherMarkers(bytes) : (\A r \in RuleStarts(bytes) : r < d) => e <= d

\* C10 (as claimed): when RULE blocks occur, are followed by other
\* top-level sections and recur further down, find_last_rule_position
\* returns the offset of the first non-RULE marker line after the last RULE
\* block.
C10_ReturnsLastRuleEnd ==
    (/\ Current("find_last_rule_position") /\ pc = "idle" /\ result.why # "io"
     /\ RulesRecur(orig))
    => /\ result.status = "ok"
       /\ result.value = LastRuleEnd(orig)

\* find_last_rule_position has ended, and not with an error of the
\* environment.
ScannedForLastRule ==
    Current("find_last_rule_position") /\ pc = "idle" /\ result.why # "io"

\* RULE blocks occur and no other top-level marker line follows the last.
RuleBlockLast(bytes) ==
    /\ RuleStarts(bytes) # {}
    /\ \A e \in OtherMarkers(bytes) : \E r \in RuleStarts(bytes) : e < r

\* C11 (as claimed): when no other top-level marker line follows the last
\* RULE block, find_last_rule_position returns the end of the file, not an
\* offset at or before that block's marker line.
C11_ReturnsEndOfFile ==
    (ScannedForLastRule /\ RuleBlockLast(orig))
    => /\ result.status = "ok"
       /\ result.value = Len(orig)

\* The file starts with RULE blocks (marker lines and indented lines only)
\* and the line at offset e is the first top-level marker of another type.
RulesThenMarker(bytes, e) ==
    /\ 0 \in RuleStarts(bytes)
    /\ e \in OtherMarkers(bytes)
    /\ \A s \in LineStarts(bytes) :
          s < e => (s \in RuleStarts(bytes) \/ Indented(bytes, s))

\* C12 (as claimed): for contiguous RULE blocks followed by a top-level
\* marker line of another type, find_last_rule_position returns the offset
\* at which that marker line starts.
C12_ReturnsFollowingMarker ==
    \A e \in LineStarts(orig) :
        (ScannedForLastRule /\ RulesThenMarker(orig, e))
        => /\ result.status = "ok"
           /\ result.value = e

\* C13 (as claimed): on a file with no occurrence of the target section
\* type, find_last_rule_position and find_insertion_point do not raise and
\* return 0 or the end of the file, never an offset strictly inside it.
C13_DegenerateOffset ==
    /\ (ScannedForLastRule /\ RuleStarts(orig) = {})
       => /\ result.status = "ok"
          /\ result.value \in {0, Len(orig)}
    /\ (/\ Current("find_insertion_point") /\ pc = "idle" /\ result.why # "io"
        /\ ~Contains(DecodeIgnore(orig), P_ADD \o call.after_section))
       => /\ result.status = "ok"
          /\ result.value \in {0, Len(orig)}

\* C14: for every offset greater than the length of the file F, a
\* positional append_content does not fail (it ends in error only on an
\* error of the environment) and leaves F + b'\n\n' + utf8(B) + b'\n\n'.
C14_OffsetPastEndAppends ==
    (/\ Current("append_content") /\ pc = "idle" /\ result.why # "io"
     /\ call.at > Len(orig))
    => /\ result.status = "ok"
       /\ Content(Target) = orig \o SEP \o Utf8(call.new) \o SEP

\* A block of two-byte characters inserted past the end of a file of two
\* bytes, one of them no UTF-8.
C14_Witness ==
    /\ Current("append_content") /\ pc = "idle" /\ result.status = "ok"
    /\ orig = <<65, 255>> /\ call.at = 3 /\ call.new = <<233, NL>>
    /\ Content(Target) = <<65, 255, NL, NL, 195, 169, NL, NL, NL>>

\* The chunk in hand was read by the one read that copies the prefix.
HeadInHand == pc \in {"ap_write_head", "irf_write_head"}

\* C15 (as claimed): during a positional insert no single read of the source
\* asks for more than the chunk size; the prefix before the offset is copied
\* in chunks, so the bytes one read hands over never exceed the chunk size.
C15_ReadsBounded ==
    (HeadInHand \/ pc \in {"ap_write", "irf_write"})
    => Len(call.chunk) <= ChunkBytes

\* A call of backup_file that ended in an error during the copy loop.
BackupFailedMidCopy ==
    /\ Current("backup_file") /\ pc = "idle" /\ result.status = "raised"
    /\ result.where \in {"bk_read", "bk_write"}

\* C16 (as claimed): after backup_file failed partway through the copy, no
\* half-written file is left at the backup path: either there is no file
\* there or it holds the whole source.
C16_NoHalfWrittenBackup ==
    BackupFailedMidCopy
    => \/ ~Exists(call.bak)
       \/ fs[call.bak] = Content(Target)

\* C17: when backup_file fails during the copy it returns no backup path,
\* and process_ticket_231589 ends there: it records no backup path (none is
\* reported to the operator), computes no insertion point, and the target
\* still holds what it held when the workflow started.
C17_FailedBackupStopsWorkflow ==
    BackupFailedMidCopy
    => /\ wf = "none"
       /\ result.value = 0
       /\ run.backup_path = NoRun.backup_path
       /\ run.position = NoRun.position
       /\ Content(Target) = run.start

\* The workflow's backup failed on a write and left, under the backup's
\* name, less than the export file holds.
C17_Witness ==
    /\ BackupFailedMidCopy /\ result.where = "bk_write"
    /\ patches = 1
    /\ Exists(call.bak) /\ fs[call.bak] # Content(Target)
    /\ Content(Target) = run.start

\* <stem>_backup_<timestamp><suffix>, in directory dir.
NamedAfter(dir, p, c) ==
    dir \o "/" \o p.stem \o "_backup_" \o Timestamp(c) \o p.suffix

\* C18 (as claimed): every backup made by backup_file, insert_rules_fast or
\* create_backup is named <stem>_backup_<timestamp><suffix>, with the stem
\* and the suffix of the file it was made from.
C18_BackupKeepsSuffix ==
    \A b \in DOMAIN made :
        \E c \in 1..clock, dir \in {file_path.parent, "data/backups"} :
            b = NamedAfter(dir, file_path, c)

\* A validator has returned its pair.
Validated ==
    /\ result.fn \in {"validate_structure", "validate_file"}
    /\ pc = "idle" /\ result.status = "ok"

\* C19: validate_structure and validate_file change no file (the file they
\* inspect holds what it held, and no other file appears), and the flag
\* they return is true exactly when the list of issues they return is empty.
C19_ValidationIsPureReport ==
    /\ result.fn \in {"validate_structure", "validate_file"}
       => fs = (Target :> orig)
    /\ Validated => (result.value.is_valid <=> result.value.issues = <<>>)

\* validate_file has found a file of over 100 bytes valid, after
\* validate_structure did.
C19_Witness ==
    /\ Validated /\ result.fn = "validate_file"
    /\ result.value.is_valid /\ result.value.issues = <<>>
    /\ Methods = <<"validate_structure", "validate_file">>
    /\ fs = (Target :> orig) /\ Len(orig) >= MIN_FILE_SIZE

\* The operator typed a y, in either case, with blanks or without.
SaidYes(answer) == Strip(answer.response) \in {<<121>>, <<89>>}

Prompts == [i \in 1..Len(run.answers) |-> run.answers[i].prompt]

Declined == \E i \in 1..Len(run.answers) : ~SaidYes(run.answers[i])

\* The workflow of the handler has returned to the menu of its own accord.
ReturnedToMenu ==
    /\ run.handler /\ wf = "none"
    /\ result.fn = "process_ticket_231589" /\ result.status = "ok"

\* C20: in the existing-file workflow the operator decides.  After a
\* prompt that was not answered with y the export file holds what it held
\* when the workflow started; once a workflow with the handler was started,
\* a file that differs was patched after a y at the ready prompt, and after
\* a y at "Continue anyway?" too when validation found issues; issues found
\* always lead to that prompt, and the workflow then returns early only on
\* an answer other than y.
C20_OperatorDecides ==
    /\ Declined => Content(Target) = run.start
    /\ (patches > 0 /\ run.handler /\ Content(Target) # run.start)
       => /\ Prompts = (IF run.is_valid THEN <<>> ELSE <<"Continue anyway?">>)
                       \o <<"Ready to add">>
          /\ ~Declined
    /\ (run.handler /\ ~run.is_valid)
       => \/ wf = "ask_continue"
          \/ Len(Prompts) >= 1 /\ Prompts[1] = "Continue anyway?"
    /\ (ReturnedToMenu /\ ~run.is_valid /\ result.where # "in_append")
       => Declined

\* Validation found issues, the operator answered both prompts with y, and
\* the export file was patched.
C20_Witness ==
    /\ run.handler /\ ~run.is_valid
    /\ Prompts = <<"Continue anyway?", "Ready to add">> /\ ~Declined
    /\ Content(Target) # run.start
    /\ ReturnedToMenu /\ result.where = "in_append"

\* The operator declined at the ready prompt after going on past the
\* issues, and the export file is as it was.
C20_WitnessDeclined ==
    /\ run.handler /\ ~run.is_valid
    /\ Len(Prompts) = 2 /\ SaidYes(run.answers[1]) /\ ~SaidYes(run.answers[2])
    /\ ReturnedToMenu /\ Content(Target) = run.start /\ Exists(run.backup_path)

Scanners == {"find_insertion_point", "find_last_rule_position"}

NamedExactly(bytes, s, name) ==
    LET line == LineAt(bytes, s)
    IN  /\ s < Len(bytes)
        /\ StartsWith(line, P_ADD \o name)
        /\ Len(line) > Len(P_ADD \o name) => line[Len(P_ADD \o name) + 1] \in Whitespace

\* The marker lines named exactly RULE, and those that end a RULE region:
\* marker lines named neither RULE nor RULECOMPONENT.
ExactRules(bytes) == {s \in LineStarts(bytes) : NamedExactly(bytes, s, S_RULE)}
RegionEnders(bytes) ==
    {s \in LineStarts(bytes) :
        /\ MarkerAt(bytes, s)
        /\ ~NamedExactly(bytes, s, S_RULE)
        /\ ~StartsWith(LineAt(bytes, s), P_ADD_RULECOMPONENT)}

\* C22 (as claimed): find_last_rule_position is the scanner state machine.
\* It is inside a RULE region from the first marker line named exactly
\* RULE, and returns the offset of the first marker line after it that is
\* named neither RULE nor RULECOMPONENT; a file with no marker line named
\* exactly RULE (one with RULESET lines only, say) never starts a region,
\* and the offset returned is then 0 or the end of the file.
C22_ScannerStateMachine ==
    ScannedForLastRule
    => /\ result.status = "ok"
       /\ \A r \in ExactRules(orig), e \in RegionEnders(orig) :
             (/\ r < e
              /\ \A x \in ExactRules(orig) : r <= x
              /\ \A y \in RegionEnders(orig) : r < y => e <= y)
             => result.value = e
       /\ ExactRules(orig) = {} => result.value \in {0, Len(orig)}

\* C23 (as claimed): what the scanners recognise as a section marker begins
\* at the start of a text line.  The occurrence of "ADD <section>" that the
\* first pass of find_insertion_point recorded last is at the start of the
\* text or follows a newline, and every position find_section_positions
\* returns is the offset of a line that begins with "ADD <section>".
C23_MarkersAtLineStart ==
    /\ (Current("find_insertion_point") /\ pc = "fip_end")
       => LET text == ReadText(orig).text
              start == LastMatch(text, P_ADD \o call.after_section)
          IN  start > 0 => text[start] = NL
    /\ (Current("find_section_positions") /\ pc = "idle" /\ result.status = "ok")
       => \A i \in DOMAIN result.value :
             /\ result.value[i] \in LineStarts(orig)
             /\ StartsWith(LineAt(orig, result.value[i]), P_ADD \o call.after_section)

C25_RecordedOffsetIsTrue ==
    (Current("find_insertion_point") /\ pc = "fip_end")
    => LET read == ReadText(orig)
           start == LastMatch(read.text, P_ADD \o call.after_section)
       IN  (call.chunk_size >= Len(read.text) /\ start >= 0)
           => call.pos = read.ends[start + 1] - 1

\* C26 (as claimed): find_insertion_point gives the same result however the
\* file is cut into read chunks.  Two calls for the same section on the
\* unmodified file, whatever the chunk sizes of their first passes, return
\* the same offset; the file here is ASCII text with LF line ends, so
\* that characters and bytes count alike.
C26_ChunkingIrrelevant ==
    ReadText(Content(Target)).text = Content(Target)
    => \A i, j \in 1..Len(hist) :
          (/\ hist[i].fn = "find_insertion_point"
           /\ hist[j].fn = "find_insertion_point"
           /\ hist[i].after_section = hist[j].after_section)
          => hist[i].value = hist[j].value

\* C27 (as claimed): the two modes of append_content agree.  Called with no
\* position, or with the length of the file as position, it leaves the file
\* followed by "\n\n", the block in UTF-8 and "\n\n" when it returns, and
\* the file as it was when it raises.
C27_ModesAgree ==
    (/\ pc = "idle" /\ Current("append_content")
     /\ call.at \in {NoAt, Len(orig)})
    => Content(Target) = IF result.status = "ok"
                         THEN orig \o SEP \o Utf8(call.new) \o SEP
                         ELSE orig

\* Path p holds what it held in the directory before the tool was started.
Untouched(p) == \E d \in {Bystander} \cup StaleTemps : p \in DOMAIN d /\ Content(p) = d[p]

\* C28 (as claimed): a positional insert changes no file except the target.
\* No step of append_content with a position or of insert_rules_fast
\* changes or removes a file other than the target that the directory held
\* before, one named <stem>_temp.txt included, and when the insert has
\* returned there is no temp file.
C28_OnlyTargetChanges ==
    [][(\/ call'.fn = "append_content" /\ Positional(call'.at)
        \/ call'.fn = "insert_rules_fast")
       => /\ \A p \in DOMAIN fs \ {Target} :
                Untouched(p) => p \in DOMAIN fs' /\ fs'[p] = fs[p]
          /\ (pc' = "idle" /\ result'.status = "ok")
             => TempPath(file_path) \notin DOMAIN fs']_vars

\* A retry of a positional insert that failed in a write to the temp file.
Retrying == call.attempt > 1 /\ result.fn = call.fn

\* C29: a retry after a failure is safe.  While the insert that failed in a
\* write to the temp file is tried again on the unchanged target, the
\* target holds the content it had or the splice of that content (between
\* the two renames of insert_rules_fast the path is absent), and once the
\* retry has returned it holds exactly the splice: nothing of what the
\* failed attempt left in the temp file.
C29_RetryPublishesSplice ==
    Retrying
    => /\ \/ Content(Target) = orig
          \/ Positional(call.at) /\ Content(Target) = Splice(orig, call.at, call.new)
          \/ call.fn = "insert_rules_fast" /\ ~Exists(Target)
       /\ (pc = "idle" /\ result.status = "ok")
          => Content(Target) = Splice(orig, call.at, call.new)

\* The retry of an insert inside a file of two bytes has returned; the
\* first attempt had left a part of the patched copy in the temp file.
C29_Witness ==
    /\ Retrying /\ call.fn = "append_content" /\ call.attempt = 2
    /\ pc = "idle" /\ result.status = "ok"
    /\ Len(orig) = 2 /\ call.at = 1
    /\ Content(Target) = Splice(orig, 1, call.new)

\* How often line occurs in lines.
Count(lines, line) == Cardinality({i \in DOMAIN lines : lines[i] = line})

\* The section types of the marker lines in lines, in order.
MarkerTypes(lines) ==
    LET markers == SelectSeq(lines, LAMBDA line : SectionTypeOf(line) # <<>>)
    IN  [k \in DOMAIN markers |-> SectionTypeOf(markers[k])]

\* parse_file and then save have rewritten a file that began with a marker
\* line.
RoundTripped ==
    /\ pc = "idle" /\ Current("save") /\ result.status = "ok"
    /\ Manager.raw_lines # <<>> /\ SectionTypeOf(Manager.raw_lines[1]) # <<>>

\* C30 (as claimed): the round trip of PCXSchemaManager.  After parse_file
\* and save on a file that starts with a marker line, every line other
\* than a blank one is in the file as often as it was in the file parsed,
\* also when consecutive blocks have the same section type, and the marker
\* lines follow each other in nondecreasing SECTION_ORDER.
C30_RoundTrip ==
    RoundTripped
    => LET read == Manager.raw_lines
           written == TextLines(Content(Target), 0)
       IN  /\ \A i \in DOMAIN read :
                  read[i] # <<NL>> => Count(written, read[i]) = Count(read, read[i])
           /\ \A i \in DOMAIN written :
                  written[i] # <<NL>> => Count(read, written[i]) = Count(written, written[i])
           /\ \A i, j \in DOMAIN MarkerTypes(written) :
                  i < j => OrderOf(MarkerTypes(written)[i]) <= OrderOf(MarkerTypes(written)[j])

====
